---- MODULE Spec2Model ----
(***************************************************************************)
(* Model of the timetable fill engine of timetable_kit:                    *)
(*   core.py              TTSpec, get_cell_codes, the dwell map and        *)
(*                        fill_tt_spec                                     *)
(*   text_presentation.py get_cell_substitution, get_rd_str, timepoint_str *)
(*                        and the column headers                           *)
(*                                                                         *)
(* Text.  A Python str is modelled as a sequence of atoms.  An atom is a   *)
(* word ("59", "last", "two_row"), a separator (" ", "/"), or a fragment   *)
(* that the code emits as one literal ("Ar ", "<b>", a rendered time).     *)
(* "" is <<>>, concatenation is \o, and strip / endswith / removesuffix /  *)
(* split work on atoms.  Every text of the model's domain is cut into      *)
(* atoms so that no word ends in one of the suffixes the code tests for.   *)
(***************************************************************************)
EXTENDS Integers, Sequences, FiniteSets, TLC

VARIABLES
    csv,             \* spec.csv: the spec grid, a sequence of rows of cells
    column_options,  \* spec.column_options: per column, a list of option words
    aux,             \* spec.aux: the options the fill reads
    feed,            \* today_feed: the filtered GTFS feed (never assigned by the fill)
    args,            \* keyword arguments of the running call of fill_tt_spec
    pc,              \* position of the running call
    x,               \* column loop index of fill_tt_spec
    y,               \* row loop index of fill_tt_spec
    tt,              \* the content grid being filled
    styler_t,        \* the style grid being filled
    writes,          \* per cell, how often tt / styler_t has been assigned in this call
    locals,          \* locals of the running call: header lists, dwell map, column flags, last timepoint_str call
    result,          \* what the last finished call returned (or that it raised)
    history,         \* snapshots kept for the claims: spec at entry, first result
    fin,             \* input of the function under test (function specifications)
    fout,            \* its output
    prepared_output_dirs,          \* timetable.py: module-level global
    prepared_output_dirs_for_rpa,  \* timetable.py: module-level global
    copy_log         \* the calls of copy_supporting_files_to_output_dir so far

\* the state of timetable.copy_supporting_files_to_output_dir
assets == <<prepared_output_dirs, prepared_output_dirs_for_rpa, copy_log>>

vars == <<csv, column_options, aux, feed, args, pc, x, y, tt, styler_t, writes,
          locals, result, history, fin, fout, assets>>

-----------------------------------------------------------------------------
(* Python str methods on atom sequences *)

RECURSIVE lstrip(_)
lstrip(s) == IF s # <<>> /\ Head(s) = " " THEN lstrip(Tail(s)) ELSE s

RECURSIVE rstrip(_)
rstrip(s) == IF s # <<>> /\ s[Len(s)] = " " THEN rstrip(SubSeq(s, 1, Len(s) - 1)) ELSE s

strip(s) == rstrip(lstrip(s))

endswith(s, w) == Len(s) >= 1 /\ s[Len(s)] = w

startswith(s, p) == Len(s) >= Len(p) /\ SubSeq(s, 1, Len(p)) = p

removesuffix(s, w) == IF endswith(s, w) THEN SubSeq(s, 1, Len(s) - 1) ELSE s

removeprefix(s, p) == IF startswith(s, p) THEN SubSeq(s, Len(p) + 1, Len(s)) ELSE s

\* str.lower(): the only upper-case atoms of the domain
lower_atom(a) == CASE a = "Stations" -> "stations"
                   [] a = "Column-Options" -> "column-options"
                   [] a = "COLUMN_OPTIONS" -> "column_options"
                   [] a = "Updown" -> "updown"
                   [] OTHER -> a

lower(s) == [i \in 1..Len(s) |-> lower_atom(s[i])]

\* s.split(sep): the pieces between the occurrences of the atom sep
RECURSIVE split(_, _)
split(s, sep) ==
    IF \E i \in 1..Len(s) : s[i] = sep
    THEN LET i == CHOOSE k \in 1..Len(s) : s[k] = sep /\ \A j \in 1..(k - 1) : s[j] # sep
         IN <<SubSeq(s, 1, i - 1)>> \o split(SubSeq(s, i + 1, Len(s)), sep)
    ELSE <<s>>

\* s.split(): the words of s
words(s) == LET keep == {i \in 1..Len(s) : s[i] # " "}
                nth(k) == CHOOSE i \in keep : Cardinality({j \in keep : j < i}) = k - 1
            IN [k \in 1..Cardinality(keep) |-> <<s[nth(k)]>>]

\* sep.join(list)
RECURSIVE join(_, _)
join(sep, list) ==
    IF list = <<>> THEN <<>>
    ELSE IF Len(list) = 1 THEN list[1]
    ELSE list[1] \o sep \o join(sep, Tail(list))

contains(list, e) == \E i \in 1..Len(list) : list[i] = e

-----------------------------------------------------------------------------
(* text_presentation.py *)

cell_substitution_keys ==
    {"blank", "downarrow", "uparrow", "rightarrow", "downrightarrow",
     "rightdownarrow", "uprightarrow", "rightuparrow"}

\* the substitution texts: "blank" becomes one space, an arrow becomes a <div>
cell_substitution_map(k) == IF k = "blank" THEN <<" ">> ELSE <<"<div>&" \o k \o ";</div>">>

NoText == <<"None">>

\* returns NoText for Python's None
get_cell_substitution(cell_text) ==
    LET t == strip(cell_text)
    IN IF Len(t) = 1 /\ t[1] \in cell_substitution_keys
       THEN cell_substitution_map(t[1])
       ELSE NoText

NaT == 0 - 1   \* a missing time (pandas NaN)

\* get_rd_str with the 'R' and 'D' markers on whichever line is asked for
get_rd_str_on_any_line(timepoint, doing_html, is_first_stop, is_last_stop, is_second_line, is_arrival_line, is_departure_line) ==
    LET d == timepoint.drop_off_type
        p == timepoint.pickup_type
        rd == CASE d = 1 /\ p = 0 -> IF ~is_first_stop THEN "R" ELSE " "
                [] d = 0 /\ p = 1 -> IF ~is_last_stop THEN "D" ELSE " "
                [] d = 1 /\ p = 1 -> IF ~is_second_line THEN "*" ELSE " "
                [] (d \in {2, 3} \/ p \in {2, 3}) -> IF ~is_second_line THEN "F" ELSE " "
                [] d = 0 /\ p = 0 /\ timepoint.timepoint # "absent" ->
                     IF timepoint.timepoint = "0" /\ ~is_arrival_line THEN "L" ELSE " "
                [] OTHER -> " "
    IN IF doing_html
       THEN <<"<span class=box-rd>">>
            \o (IF rd # " " THEN <<"<b>", rd, "</b>">> ELSE <<rd>>)
            \o <<"</span>">>
       ELSE <<rd>>

get_rd_str(timepoint, doing_html, is_first_stop, is_last_stop, is_second_line, is_arrival_line, is_departure_line) ==
    LET d == timepoint.drop_off_type
        p == timepoint.pickup_type
        rd == CASE d = 1 /\ p = 0 ->
                     IF ~is_first_stop /\ ~is_arrival_line THEN "R" ELSE " "
                [] d = 0 /\ p = 1 ->
                     IF ~is_last_stop /\ ~is_departure_line THEN "D" ELSE " "
                [] d = 1 /\ p = 1 ->
                     IF ~is_second_line THEN "*" ELSE " "
                [] (d \in {2, 3} \/ p \in {2, 3}) ->
                     IF ~is_second_line THEN "F" ELSE " "
                [] d = 0 /\ p = 0 /\ timepoint.timepoint # "absent" ->
                     IF timepoint.timepoint = "0" /\ ~is_arrival_line THEN "L" ELSE " "
                [] OTHER -> " "
    IN IF doing_html
       THEN <<"<span class=box-rd>">>
            \o (IF rd # " " THEN <<"<b>", rd, "</b>">> ELSE <<rd>>)
            \o <<"</span>">>
       ELSE <<rd>>

get_baggage_str(doing_html) ==
    IF ~doing_html THEN <<"[baggage]">>
    ELSE <<"<span class=box-baggage>", "[baggage]", "</span>">>

\* no placeholder where there is no checked baggage
get_no_baggage_str(doing_html) == <<>>

get_blank_baggage_str(doing_html) ==
    IF ~doing_html THEN <<" ">> ELSE <<"<span class=box-baggage>", "</span>">>

get_bus_str(doing_html) ==
    IF ~doing_html THEN <<"[bus]">>
    ELSE <<"<span class=box-bus>", "[bus]", "</span>">>

get_blank_bus_str(doing_html) ==
    IF ~doing_html THEN <<" ">> ELSE <<"<span class=box-bus>", "</span>">>

\* time_short_str_12 of an exploded time: one atom per time of day
TimeAtom(t) == "t" \o ToString(t)

NoonSecs == 43200

\* departure_time_str / arrival_time_str of timepoint_str
time_str(t, doing_html) ==
    LET raw == IF t = NaT THEN <<"---">> ELSE <<TimeAtom(t)>>
        is_pm == t # NaT /\ (t % (2 * NoonSecs)) >= NoonSecs
    IN IF doing_html
       THEN <<"<span class=box-time12>">>
            \o (IF is_pm THEN <<"<b>">> \o raw \o <<"</b>">> ELSE raw)
            \o <<"</span>">>
       ELSE raw

\* departure_daystring / arrival_daystring of timepoint_str
daystring_str(t, f) ==
    IF ~f.use_daystring THEN <<>>
    ELSE LET days == IF t = NaT THEN <<>> ELSE <<"Daily">>
         IN IF f.doing_html THEN <<"<span class=" \o f.days_box_class \o ">">> \o days \o <<"</span>">>
            ELSE <<" ">> \o days

blank_daystring(f) ==
    IF f.use_daystring /\ f.doing_html
    THEN <<"<span class=" \o f.days_box_class \o ">", "</span>">>
    ELSE <<>>

blank_rd_str(f) == IF f.doing_html THEN <<"<span class=box-rd>", "</span>">> ELSE <<>>

blank_time_str(f) == IF f.doing_html THEN <<"<span class=box-time12>", "</span>">> ELSE <<>>

ar_str(f) == IF ~f.use_ar_dp_str THEN <<>>
             ELSE IF f.doing_html THEN <<"<span class=box-ardp>", "Ar", "</span>">>
             ELSE <<"Ar ">>

dp_str(f) == IF ~f.use_ar_dp_str THEN <<>>
             ELSE IF f.doing_html THEN <<"<span class=box-ardp>", "Dp", "</span>">>
             ELSE <<"Dp ">>

receive_only(timepoint, f) ==
    f.is_first_stop \/ (timepoint.drop_off_type = 1 /\ timepoint.pickup_type = 0)

\* discharge-only decided from the last-stop flag alone
discharge_only_by_flag(timepoint, f) == f.is_last_stop

discharge_only(timepoint, f) ==
    \/ f.is_last_stop
    \/ /\ ~(timepoint.drop_off_type = 1 /\ timepoint.pickup_type = 0)
       /\ timepoint.pickup_type = 1 /\ timepoint.drop_off_type = 0

\* NaN == NaN is false in Python
no_dwell(timepoint) ==
    /\ timepoint.departure_time # NaT
    /\ timepoint.arrival_time # NaT
    /\ timepoint.departure_time = timepoint.arrival_time

linebreak(f) == IF f.doing_html THEN <<"<br>">> ELSE <<"\n">>

\* the one-row branch of timepoint_str
one_row_str(timepoint, f) ==
    LET rd_str == get_rd_str(timepoint, f.doing_html, f.is_first_stop, f.is_last_stop,
                             FALSE, FALSE, FALSE)
        ar_dp_str == IF f.is_first_stop THEN dp_str(f)
                     ELSE IF f.is_last_stop THEN ar_str(f)
                     ELSE IF f.use_ar_dp_str /\ ~f.doing_html THEN <<"   ">>
                     ELSE <<>>
        baggage_str == IF ~f.use_baggage_icon THEN <<>>
                       ELSE IF f.has_baggage THEN get_baggage_str(f.doing_html)
                       ELSE get_blank_baggage_str(f.doing_html)
        bus_str == IF ~f.use_bus_icon THEN <<>>
                   ELSE IF f.is_bus THEN get_bus_str(f.doing_html)
                   ELSE get_blank_bus_str(f.doing_html)
        dis == discharge_only(timepoint, f)
    IN ar_dp_str
       \o (IF f.no_rd THEN <<>> ELSE rd_str)
       \o (IF dis THEN time_str(timepoint.arrival_time, f.doing_html)
                  ELSE time_str(timepoint.departure_time, f.doing_html))
       \o (IF dis THEN daystring_str(timepoint.arrival_time, f)
                  ELSE daystring_str(timepoint.departure_time, f))
       \o baggage_str
       \o bus_str

\* which line of the two-row layout gets an icon: "dp", "ar"
icon_line(timepoint, f) ==
    IF receive_only(timepoint, f) \/ (no_dwell(timepoint) /\ ~discharge_only(timepoint, f))
    THEN "dp"
    ELSE IF discharge_only(timepoint, f) THEN "ar"
    ELSE IF f.reverse THEN "dp"
    ELSE "ar"

line_baggage_str(timepoint, f, line) ==
    IF ~f.use_baggage_icon THEN <<>>
    ELSE IF f.has_baggage /\ icon_line(timepoint, f) = line THEN get_baggage_str(f.doing_html)
    ELSE get_blank_baggage_str(f.doing_html)

line_bus_str(timepoint, f, line) ==
    IF ~f.use_bus_icon THEN <<>>
    ELSE IF f.is_bus /\ icon_line(timepoint, f) = line THEN get_bus_str(f.doing_html)
    ELSE get_blank_bus_str(f.doing_html)

\* a line that holds only the Ar / Dp label and the empty boxes
blank_line_str(label, f) ==
    label
    \o (IF f.no_rd THEN <<>> ELSE blank_rd_str(f))
    \o blank_time_str(f)
    \o blank_daystring(f)
    \o (IF f.use_baggage_icon THEN get_blank_baggage_str(f.doing_html) ELSE <<>>)
    \o (IF f.use_bus_icon THEN get_blank_bus_str(f.doing_html) ELSE <<>>)

arrival_line_str(timepoint, f) ==
    IF f.is_first_stop THEN <<>>
    ELSE IF receive_only(timepoint, f)
            \/ (no_dwell(timepoint) /\ ~discharge_only(timepoint, f))
    THEN blank_line_str(ar_str(f), f)
    ELSE ar_str(f)
         \o (IF f.no_rd THEN <<>>
             ELSE get_rd_str(timepoint, f.doing_html, f.is_first_stop, f.is_last_stop,
                             f.reverse, TRUE, FALSE))
         \o time_str(timepoint.arrival_time, f.doing_html)
         \o daystring_str(timepoint.arrival_time, f)
         \o line_baggage_str(timepoint, f, "ar")
         \o line_bus_str(timepoint, f, "ar")

departure_line_str(timepoint, f) ==
    IF f.is_last_stop THEN <<>>
    ELSE IF discharge_only(timepoint, f)
    THEN blank_line_str(dp_str(f), f)
    ELSE dp_str(f)
         \o (IF f.no_rd THEN <<>>
             ELSE get_rd_str(timepoint, f.doing_html, f.is_first_stop, f.is_last_stop,
                             f.reverse, FALSE, TRUE))
         \o time_str(timepoint.departure_time, f.doing_html)
         \o daystring_str(timepoint.departure_time, f)
         \o line_baggage_str(timepoint, f, "dp")
         \o line_bus_str(timepoint, f, "dp")

\* the two lines in the order arrival, departure, whatever reverse says
two_row_str_never_swapped(timepoint, f) ==
    arrival_line_str(timepoint, f) \o linebreak(f) \o departure_line_str(timepoint, f)

two_row_str(timepoint, f) ==
    IF ~f.reverse
    THEN arrival_line_str(timepoint, f) \o linebreak(f) \o departure_line_str(timepoint, f)
    ELSE departure_line_str(timepoint, f) \o linebreak(f) \o arrival_line_str(timepoint, f)

timepoint_str(timepoint, f) ==
    IF ~f.two_row THEN one_row_str(timepoint, f) ELSE two_row_str(timepoint, f)

-----------------------------------------------------------------------------
(* core.py: cell codes and train specs *)

special_column_names ==
    {<<>>, <<"station">>, <<"stations">>, <<"services">>, <<"access">>, <<"timezone">>}

special_row_names ==
    {<<>>, <<"omit">>, <<"column-options">>, <<"column_options">>, <<"route-name">>,
     <<"updown">>, <<"days">>, <<"days-of-week">>, <<"origin">>, <<"destination">>}

\* Python's None for a _CellCodes
NoCodes == [none |-> TRUE, ts_none |-> TRUE, train_spec |-> <<>>,
            first |-> FALSE, last |-> FALSE, blank |-> FALSE, two_row |-> FALSE]

\* a _CellCodes dict; ts_none says that train_spec is None
Codes(ts_none, ts, first, last, blank, two_row) ==
    [none |-> FALSE, ts_none |-> ts_none, train_spec |-> ts,
     first |-> first, last |-> last, blank |-> blank, two_row |-> two_row]

strip_noheader(train_spec) == strip(removesuffix(train_spec, "noheader"))

\* cell codes read without the test that the train is one of the column
get_cell_codes_unchecked(code_text, train_specs) ==
    IF endswith(strip(code_text), "last")
    THEN Codes(FALSE, strip(removesuffix(strip(code_text), "last")), FALSE, TRUE, FALSE, FALSE)
    ELSE IF endswith(strip(code_text), "blank")
    THEN Codes(FALSE, strip(removesuffix(strip(code_text), "blank")), FALSE, FALSE, TRUE,
               FALSE)
    ELSE NoCodes

get_cell_codes(code_text, train_specs) ==
    IF code_text = <<>> THEN NoCodes
    ELSE
    LET t0 == strip(code_text)
        specs == [i \in 1..Len(train_specs) |-> strip_noheader(train_specs[i])]
        two_row == endswith(t0, "two_row") \/ endswith(t0, "two-row") \/ endswith(t0, "tworow")
        t1 == IF endswith(t0, "two_row") THEN strip(removesuffix(t0, "two_row"))
              ELSE IF endswith(t0, "two-row") THEN strip(removesuffix(t0, "two-row"))
              ELSE IF endswith(t0, "tworow") THEN strip(removesuffix(t0, "tworow"))
              ELSE t0
    IN IF endswith(t1, "last")
       THEN LET ts == strip(removesuffix(t1, "last"))
            IN IF ts = <<>> THEN Codes(TRUE, <<>>, FALSE, TRUE, FALSE, two_row)
               ELSE IF ~contains(specs, ts) THEN NoCodes
               ELSE Codes(FALSE, ts, FALSE, TRUE, FALSE, two_row)
       ELSE IF endswith(t1, "first")
       THEN LET ts == strip(removesuffix(t1, "first"))
            IN IF ts = <<>> THEN Codes(TRUE, <<>>, TRUE, FALSE, FALSE, two_row)
               ELSE IF ~contains(specs, ts) THEN NoCodes
               ELSE Codes(FALSE, ts, TRUE, FALSE, FALSE, two_row)
       ELSE IF endswith(t1, "blank")
       THEN LET ts == strip(removesuffix(t1, "blank"))
            IN IF ~contains(specs, ts) THEN NoCodes
               ELSE Codes(FALSE, ts, FALSE, FALSE, TRUE, two_row)
       ELSE LET ts == strip(t1)
            IN IF ts = <<>> /\ two_row THEN Codes(TRUE, <<>>, FALSE, FALSE, FALSE, two_row)
               ELSE IF ~contains(specs, ts) THEN NoCodes
               ELSE Codes(FALSE, ts, FALSE, FALSE, FALSE, two_row)

\* "if cell_codes and cell_codes[...]": a dict is truthy, None and "" are not
codes_train_spec_given(cc) == ~cc.none /\ ~cc.ts_none /\ cc.train_spec # <<>>

split_trains_spec(trains_spec) ==
    LET raw_list == split(lstrip(trains_spec), "/")
    IN [i \in 1..Len(raw_list) |-> strip(raw_list[i])]

\* the flattened train specs, in column order and without repetitions (a Python set)
RECURSIVE dedup(_)
dedup(list) ==
    IF list = <<>> THEN <<>>
    ELSE LET front == dedup(SubSeq(list, 1, Len(list) - 1))
             e == list[Len(list)]
         IN IF contains(front, e) THEN front ELSE Append(front, e)

RECURSIVE concat_all(_)
concat_all(lists) == IF lists = <<>> THEN <<>> ELSE Head(lists) \o concat_all(Tail(lists))

flatten_train_specs_list(train_specs_list) ==
    LET per_key == [i \in 1..Len(train_specs_list) |->
                       LET ts == split_trains_spec(train_specs_list[i])
                       IN [j \in 1..Len(ts) |-> strip_noheader(ts[j])]]
        all == dedup(concat_all(per_key))
    IN SelectSeq(all, LAMBDA e : e \notin special_column_names)

-----------------------------------------------------------------------------
(* core.py: TTSpec.  A grid is a sequence of rows; grid[1] is row 0 and    *)
(* row[1] is column 0.                                                     *)

strip_omits(grid) == SelectSeq(grid, LAMBDA row : row[1] # <<"omit">>)

has_column_options_row(grid) ==
    lower(grid[2][1]) \in {<<"column-options">>, <<"column_options">>}

\* the pair (spec.column_options, spec.csv) when the grid has a row 1
separate_column_options(grid) ==
    IF ~has_column_options_row(grid)
    THEN [column_options |-> [i \in 1..Len(grid[1]) |-> <<>>], csv |-> grid]
    ELSE [column_options |-> [i \in 1..Len(grid[2]) |-> words(grid[2][i])],
          csv |-> <<grid[1]>> \o SubSeq(grid, 3, Len(grid))]

get_stations_list(grid) ==
    LET col == [i \in 1..(Len(grid) - 1) |-> strip(grid[i + 1][1])]
    IN SelectSeq(col, LAMBDA s : s \notin special_row_names)

get_train_specs_list(grid) ==
    LET row == [i \in 1..(Len(grid[1]) - 1) |-> strip(grid[1][i + 1])]
    IN SelectSeq(row, LAMBDA s : s \notin special_column_names)

-----------------------------------------------------------------------------
(* The feed: trips, stop_times and routes are tables (sequences of rows).  *)
(* A result that may be an exception is [err, val]; err = "none" is a      *)
(* normal return.                                                          *)

Ok(v) == [err |-> "none", val |-> v]

Raise(e) == [err |-> e, val |-> <<>>]

\* the pair (spec.column_options, spec.csv) after calculate_column_options;
\* csv.iloc[1, 0] raises IndexError on a grid of one row
calculate_column_options(grid) ==
    IF Len(grid) < 2 THEN Raise("IndexError") ELSE Ok(separate_column_options(grid))

\* the statements after a call that may raise: F gets what the call returned,
\* and an exception of the call leaves the block at once
Then(r, F(_)) == IF r.err # "none" THEN r ELSE F(r.val)

\* a local variable with the statements that use it
Let(v, F(_)) == F(v)

GTFS_DAYS == <<"monday", "tuesday", "wednesday", "thursday", "friday", "saturday", "sunday">>

\* the text of a trip_short_name: a train number, or the one name of the
\* domain that has a weekday in it
tsn_text(trip_short_name) ==
    IF trip_short_name = "59 monday" THEN <<"59", " ", "monday">> ELSE <<trip_short_name>>

\* tsn.make_tsn_to_trip_id_dict: trip_short_name -> trip_id
make_tsn_to_trip_id_dict(fd) ==
    LET keys == {tsn_text(fd.trips[i].trip_short_name) : i \in 1..Len(fd.trips)}
    IN [k \in keys |->
           fd.trips[CHOOSE i \in 1..Len(fd.trips) :
               /\ tsn_text(fd.trips[i].trip_short_name) = k
               /\ \A j \in 1..(i - 1) : tsn_text(fd.trips[j].trip_short_name) # k].trip_id]

\* tsn.make_tsn_and_day_to_trip_id_dict: "<tsn> <weekday>" -> trip_id
make_tsn_and_day_to_trip_id_dict(fd) ==
    LET keys == {tsn_text(fd.trips[i].trip_short_name) \o <<" ", d>> :
                     i \in 1..Len(fd.trips), d \in {GTFS_DAYS[n] : n \in 1..Len(GTFS_DAYS)}}
        rows(k) == {i \in 1..Len(fd.trips) :
                       \E d \in fd.trips[i].days :
                           k = tsn_text(fd.trips[i].trip_short_name) \o <<" ", d>>}
    IN [k \in {kk \in keys : rows(kk) # {}} |->
           fd.trips[CHOOSE i \in rows(k) : \A j \in rows(k) : i <= j].trip_id]

\* d1 | d2: the entries of d2 win
dict_merge(d1, d2) ==
    [k \in (DOMAIN d1) \union (DOMAIN d2) |-> IF k \in DOMAIN d2 THEN d2[k] ELSE d1[k]]

train_spec_to_trip_id(fd) ==
    dict_merge(make_tsn_and_day_to_trip_id_dict(fd), make_tsn_to_trip_id_dict(fd))

\* the check of the trips frame that only looks for an empty frame
raise_error_if_no_row(trips) == IF Len(trips) = 0 THEN "NoTripError" ELSE "none"

raise_error_if_not_one_row(trips) ==
    IF Len(trips) = 0 THEN "NoTripError"
    ELSE IF Len(trips) > 1 THEN "TwoTripsError"
    ELSE "none"

\* my_trips[my_trips.trip_id == trip_id] with the check of its length
one_trip(my_trips) ==
    IF raise_error_if_not_one_row(my_trips) # "none"
    THEN Raise(raise_error_if_not_one_row(my_trips))
    ELSE Ok(my_trips[1])

trip_from_train_spec_local(fd, train_spec) ==
    Let(train_spec_to_trip_id(fd), LAMBDA dict :
        IF train_spec \notin DOMAIN dict THEN Raise("InputError")
        ELSE one_trip(SelectSeq(fd.trips, LAMBDA t : t.trip_id = dict[train_spec])))

\* today_feed.routes[route_id == my_trip.route_id].iloc[0]
one_route(my_routes) == IF Len(my_routes) = 0 THEN Raise("GTFSError") ELSE Ok(my_routes[1])

route_from_train_spec_local(fd, train_spec) ==
    Then(trip_from_train_spec_local(fd, train_spec), LAMBDA my_trip :
        one_route(SelectSeq(fd.routes, LAMBDA r : r.route_id = my_trip.route_id)))

\* Python's None for a timepoint
NoTimepoint == [stop_id |-> "None"]

\* the first of the rows of the trip at the stop, however many there are
get_timepoint_first_row(fd, trip_id, stop_id) ==
    LET timepoint_df == SelectSeq(fd.stop_times,
                                  LAMBDA r : r.trip_id = trip_id /\ r.stop_id = stop_id)
    IN IF Len(timepoint_df) = 0 THEN Ok(NoTimepoint) ELSE Ok(timepoint_df[1])

get_timepoint_from_trip_id(fd, trip_id, stop_id) ==
    LET timepoint_df == SelectSeq(fd.stop_times,
                                  LAMBDA r : r.trip_id = trip_id /\ r.stop_id = stop_id)
    IN IF Len(timepoint_df) = 0 THEN Ok(NoTimepoint)
       ELSE IF Len(timepoint_df) > 1 THEN Raise("TwoStopsError")
       ELSE Ok(timepoint_df[1])

get_dwell_secs(fd, trip_id, stop_id) ==
    Then(get_timepoint_from_trip_id(fd, trip_id, stop_id), LAMBDA timepoint :
        IF timepoint = NoTimepoint THEN Ok(0)
        ELSE IF timepoint.drop_off_type = 1 \/ timepoint.pickup_type = 1 THEN Ok(0)
        ELSE Ok(timepoint.departure_time - timepoint.arrival_time))

\* a loop that keeps the dwell of the train it saw last
max_last_seen(a, b) == b

max(a, b) == IF b > a THEN b ELSE a

\* agency_singleton().stop_code_to_stop_id: a dict built from the stops of the
\* feed; the feeds of the model use the station code as the stop_id
stop_code_to_stop_id(fd, station_code) ==
    IF Len(station_code) = 1 /\ station_code[1] \in fd.stops
    THEN Ok(station_code[1])
    ELSE Raise("KeyError")

\* the first exception in a list of results, "none" if there is none
first_error(results) ==
    IF \A i \in 1..Len(results) : results[i].err = "none" THEN "none"
    ELSE results[CHOOSE i \in 1..Len(results) :
             results[i].err # "none" /\ \A j \in 1..(i - 1) : results[j].err = "none"].err

\* the inner loop of make_stations_max_dwell_map over the flattened train specs,
\* from position i on, with max_dwell_secs so far
RECURSIVE max_dwell_loop(_, _, _, _, _)
max_dwell_loop(fd, train_specs, i, stop_id, max_dwell_secs) ==
    IF i > Len(train_specs) THEN Ok(max_dwell_secs)
    ELSE Then(trip_from_train_spec_local(fd, train_specs[i]), LAMBDA trip :
         Then(get_dwell_secs(fd, trip.trip_id, stop_id), LAMBDA dwell :
              max_dwell_loop(fd, train_specs, i + 1, stop_id, max(max_dwell_secs, dwell))))

\* one pass of the outer loop: the longest dwell of any train at the station
station_max_dwell(fd, flattened_train_spec_set, station_code) ==
    Then(stop_code_to_stop_id(fd, station_code), LAMBDA stop_id :
         max_dwell_loop(fd, flattened_train_spec_set, 1, stop_id, 0))

\* the dict of the loop results: station_code -> True / False
dwell_map_of(stations_list, secs, dwell_secs_cutoff) ==
    IF first_error(secs) # "none" THEN Raise(first_error(secs))
    ELSE Ok([s \in {stations_list[i] : i \in 1..Len(stations_list)} |->
                secs[CHOOSE k \in 1..Len(stations_list) : stations_list[k] = s].val
                    >= dwell_secs_cutoff])

\* station_code -> True / False, or the first exception of the loops
make_stations_max_dwell_map(fd, grid, dwell_secs_cutoff) ==
    Let(get_stations_list(grid), LAMBDA stations_list :
    Let(flatten_train_specs_list(get_train_specs_list(grid)), LAMBDA flattened :
        dwell_map_of(stations_list,
                     [i \in 1..Len(stations_list) |->
                         station_max_dwell(fd, flattened, stations_list[i])],
                     dwell_secs_cutoff)))

\* tsn.stations_list_from_trip_id: the station codes of a trip in stop order
stations_list_from_trip_id(fd, trip_id) ==
    LET rows == SelectSeq(fd.stop_times, LAMBDA r : r.trip_id = trip_id)
    IN [i \in 1..Len(rows) |-> <<rows[i].stop_id>>]

\* the stations appended, the key code left in cell (0, 0)
augment_keeps_key_code(grid, fd) ==
    IF grid[1][1] = <<>> \/ ~startswith(grid[1][1], <<"stations", " ", "of", " ">>)
    THEN Ok(grid)
    ELSE LET stations == stations_list_from_trip_id(fd, "T59")
         IN Ok(grid \o [i \in 1..Len(stations) |->
                           [j \in 1..Len(grid[1]) |-> IF j = 1 THEN stations[i] ELSE <<>>]])

\* the station rows in the place of the rows below row 0 that are not keyword rows
replace_by_stations(new_csv, stations) ==
    SelectSeq(new_csv, LAMBDA row : row = new_csv[1] \/ strip(row[1]) \in special_row_names)
    \o [i \in 1..Len(stations) |->
           [j \in 1..Len(new_csv[1]) |-> IF j = 1 THEN stations[i] ELSE <<>>]]

\* pd.concat([new_csv, stations_df]).fillna(""): one row per station after the
\* rows of the spec, the station code in column 0 and blanks elsewhere
concat_stations(new_csv, stations) ==
    new_csv
    \o [i \in 1..Len(stations) |->
           [j \in 1..Len(new_csv[1]) |-> IF j = 1 THEN stations[i] ELSE <<>>]]

\* the csv after augment_from_key_cell, or InputError
augment_from_key_cell(grid, fd) ==
    LET key_code == grid[1][1]
        prefix == <<"stations", " ", "of", " ">>
    IN IF key_code = <<>> THEN Ok(grid)
       ELSE IF ~startswith(key_code, prefix) THEN Raise("InputError")
       ELSE LET name0 == removeprefix(key_code, prefix)
                has_day == \E i \in 1..Len(GTFS_DAYS) : endswith(name0, GTFS_DAYS[i])
                day == GTFS_DAYS[CHOOSE i \in 1..Len(GTFS_DAYS) :
                           /\ endswith(name0, GTFS_DAYS[i])
                           /\ \A j \in 1..(i - 1) : ~endswith(name0, GTFS_DAYS[j])]
                key_train_name == IF has_day THEN strip(removesuffix(name0, day)) ELSE name0
                dict == IF has_day
                        THEN [k \in {kk \in DOMAIN make_tsn_and_day_to_trip_id_dict(fd) :
                                        kk[Len(kk)] = day} |->
                                 make_tsn_and_day_to_trip_id_dict(fd)[k]]
                        ELSE make_tsn_to_trip_id_dict(fd)
                key == IF has_day THEN key_train_name \o <<" ", day>> ELSE key_train_name
            IN IF key \notin DOMAIN dict THEN Raise("KeyError")
               ELSE Ok(concat_stations([grid EXCEPT ![1][1] = <<>>],
                                       stations_list_from_trip_id(fd, dict[key])))

-----------------------------------------------------------------------------
(* Collaborators the fill calls: agency data and styling *)

\* tsn.train_spec_to_tsn: the train number of a train spec
train_spec_to_tsn(train_spec) == IF train_spec = <<>> THEN <<>> ELSE <<train_spec[1]>>

train_has_checked_baggage(fd, tsn) == tsn \in fd.baggage_trains

station_has_checked_baggage(fd, station_code) == station_code \in fd.baggage_stations

is_standard_major_station(fd, station_code) == station_code \in fd.major_stations

get_station_name_pretty(station_code) == <<"name[">> \o station_code \o <<"]">>

get_route_name(route_id) == <<"route[" \o route_id \o "]">>

\* timetable_styling.get_time_column_stylings: looks the route of the train
\* spec up and returns the colour class (or attributes) of that train
get_time_column_stylings(fd, train_spec) ==
    Then(route_from_train_spec_local(fd, train_spec), LAMBDA route :
         Ok(<<"color[">> \o train_spec \o <<"]">>))

-----------------------------------------------------------------------------
(* fill_tt_spec: the per-column part.  Python's x and y count from 0, so   *)
(* the cell (y, x) is grid[y + 1][x + 1].                                  *)

column_key_str(grid, xx) == strip(grid[1][xx + 1])

is_keyword_column(grid, xx) ==
    lower(column_key_str(grid, xx)) \in
        {<<"station">>, <<"stations">>, <<"services">>, <<"access">>, <<"timezone">>}

column_train_specs(grid, xx) ==
    IF is_keyword_column(grid, xx) THEN <<>> ELSE split_trains_spec(column_key_str(grid, xx))

has_option(opts, xx, word) == contains(opts[xx + 1], <<word>>)

route_number_prefix(route_type) == IF route_type = 3 THEN "Bus #" ELSE "Train #"

\* the header text once the routes of the shown train specs are known
time_column_header_text(fewer, routes, tsns, doing_html, train_numbers_side_by_side) ==
    IF ~doing_html THEN Ok(join(<<" ", "/", " ">>, fewer))
    ELSE IF first_error(routes) # "none" THEN Raise(first_error(routes))
    ELSE IF train_numbers_side_by_side
    THEN Ok(<<"<small>",
              IF \A i \in 1..Len(routes) : routes[i].val.route_type = 2 THEN "Train #s"
              ELSE IF \A i \in 1..Len(routes) : routes[i].val.route_type = 3 THEN "Bus #s"
              ELSE "Train/Bus #s",
              "</small>", "<br>", "<strong>">>
            \o join(<<" ", "/", " ">>, tsns) \o <<"</strong>">>)
    ELSE Ok(join(<<"<hr>">>,
                 [i \in 1..Len(fewer) |->
                     <<"<small>", route_number_prefix(routes[i].val.route_type),
                       "</small>", "<br>", "<strong>">> \o tsns[i] \o <<"</strong>">>]))

get_time_column_header(fd, train_specs, doing_html, train_numbers_side_by_side) ==
    Let(SelectSeq(train_specs, LAMBDA ts : ~endswith(ts, "noheader")), LAMBDA fewer :
        IF train_specs = <<>> THEN Raise("InputError")
        ELSE IF fewer = <<>> THEN Ok(<<>>)
        ELSE time_column_header_text(
                 fewer,
                 [i \in 1..Len(fewer) |-> route_from_train_spec_local(fd, fewer[i])],
                 [i \in 1..Len(fewer) |-> train_spec_to_tsn(fewer[i])],
                 doing_html, train_numbers_side_by_side))

keyword_column_header(ck, doing_html) ==
    CASE ck \in {<<"station">>, <<"stations">>} -> <<"Station">>
      [] ck = <<"services">> ->
           IF doing_html THEN <<"<div class=services-header-text>", "Station", "<br>",
                                "Services", "</div>">>
           ELSE <<"Services">>
      [] ck = <<"access">> ->
           IF doing_html THEN <<"<div class=access-header-text>", " ", "[accessible]", "</div>">>
           ELSE <<"Access">>
      [] ck = <<"timezone">> ->
           IF doing_html THEN <<"<div class=timezone-header-text>", "TZ", "</div>">>
           ELSE <<"Time", " ", "Zone">>

\* the loop over the train specs of the column that looks for a bus (lines
\* 958-963), from position i on; it stops at the first bus
RECURSIVE bus_icon_scan(_, _, _)
bus_icon_scan(fd, train_specs, i) ==
    IF i > Len(train_specs) THEN Ok(FALSE)
    ELSE Then(route_from_train_spec_local(fd, strip_noheader(train_specs[i])), LAMBDA route :
              IF route.route_type = 3 THEN Ok(TRUE)
              ELSE bus_icon_scan(fd, train_specs, i + 1))

\* train_spec_to_trip_id[train_spec] and the stations of that trip (lines 986-987)
stations_df_for_column(fd, dict, train_spec) ==
    IF train_spec \notin DOMAIN dict THEN Raise("KeyError")
    ELSE Ok(stations_list_from_trip_id(fd, dict[train_spec]))

\* the body of the column loop before the row loop (lines 898-987): the header,
\* its styling and the flags of the column, or the exception raised
column_prologue(fd, au, a, grid, opts, xx) ==
    IF is_keyword_column(grid, xx)
    THEN Ok([column_header |-> keyword_column_header(lower(column_key_str(grid, xx)),
                                                      a.doing_html),
             column_header_styling |-> <<>>, train_column |-> FALSE,
             use_bus_icon_this_column |-> FALSE, use_baggage_icon_this_column |-> FALSE,
             stations_df_for_column |-> <<>>])
    ELSE
    Let(column_train_specs(grid, xx), LAMBDA train_specs :
    Let(SelectSeq(train_specs, LAMBDA ts : ~endswith(ts, "noheader")), LAMBDA shown :
    Then(get_time_column_header(fd, train_specs, a.doing_html,
                                au.train_numbers_side_by_side), LAMBDA header :
    Then(IF a.doing_html /\ shown # <<>> /\ shown[1] # <<>>
         THEN get_time_column_stylings(fd, shown[1])
         ELSE Ok(<<>>), LAMBDA styling :
    Then(IF au.use_bus_icon_in_cells THEN bus_icon_scan(fd, train_specs, 1) ELSE Ok(FALSE),
         LAMBDA bus :
    Then(stations_df_for_column(fd, train_spec_to_trip_id(fd), strip_noheader(train_specs[1])),
         LAMBDA df :
         Ok([column_header |-> header,
             column_header_styling |-> styling, train_column |-> TRUE,
             use_bus_icon_this_column |-> bus,
             use_baggage_icon_this_column |->
                 \E i \in 1..Len(train_specs) :
                     train_has_checked_baggage(fd, train_spec_to_tsn(train_specs[i])),
             stations_df_for_column |-> df])))))))

-----------------------------------------------------------------------------
(* fill_tt_spec: one pass of the row loop body (lines 990-1378) *)

NaNCell == <<"NaN">>   \* the content of a DataFrame cell that was never assigned

\* no call of timepoint_str yet: the locals station_code and the keyword
\* arguments of the call are unset
NoFormatterCall == [station_code |-> <<>>, kwargs |-> <<>>]

\* a filled cell: the content, the joined style list, and how often the branch
\* assigns tt.iloc[y, x] / styler_t.iloc[y, x]
Filled(text, css_list) ==
    Ok([text |-> text, css |-> join(<<" ">>, <<<<>>>> \o css_list),
        tt_writes |-> 1, styler_writes |-> 1, call |-> NoFormatterCall])

\* the loop that keeps the first train spec of the list, whichever train the
\* timepoint is of
find_timepoint_of_first_train(fd, to_check, i, stop_id) ==
    Then(trip_from_train_spec_local(fd, to_check[1]), LAMBDA first_trip :
    Then(trip_from_train_spec_local(fd, to_check[Len(to_check)]), LAMBDA last_trip :
    Then(get_timepoint_from_trip_id(fd, first_trip.trip_id, stop_id), LAMBDA first :
    Then(get_timepoint_from_trip_id(fd, last_trip.trip_id, stop_id), LAMBDA last :
         Ok([train_spec |-> to_check[1], my_trip |-> first_trip,
             timepoint |-> IF first # NoTimepoint THEN first ELSE last])))))

\* the loop "for train_spec in train_specs_to_check" (lines 1272-1280), from
\* position i on: the train spec, trip and timepoint the loop ends with
RECURSIVE find_timepoint(_, _, _, _)
find_timepoint(fd, to_check, i, stop_id) ==
    Then(trip_from_train_spec_local(fd, to_check[i]), LAMBDA my_trip :
    Then(get_timepoint_from_trip_id(fd, my_trip.trip_id, stop_id), LAMBDA timepoint :
         IF timepoint # NoTimepoint \/ i = Len(to_check)
         THEN Ok([train_spec |-> to_check[i], my_trip |-> my_trip, timepoint |-> timepoint])
         ELSE find_timepoint(fd, to_check, i + 1, stop_id)))

\* is_ardp_station(station_code) for the four modes
is_ardp_station(fd, a, dwell_map, station_code) ==
    CASE a.is_ardp_station = "False" -> Ok(FALSE)
      [] a.is_ardp_station = "True" -> Ok(TRUE)
      [] a.is_ardp_station = "major" -> Ok(is_standard_major_station(fd, station_code))
      [] a.is_ardp_station = "dwell" ->
           IF station_code \in DOMAIN dwell_map THEN Ok(dwell_map[station_code])
           ELSE Raise("KeyError")

\* two_row as the station asks for it, whatever the cell code says
cell_two_row_of_station(ardp, cell_codes) == ardp

\* two_row of a timed cell (lines 1335-1352)
cell_two_row(ardp, cell_codes) ==
    IF cell_codes.none THEN ardp
    ELSE IF cell_codes.two_row THEN TRUE
    ELSE IF cell_codes.first \/ cell_codes.last THEN FALSE
    ELSE ardp

days_box_class(opts, xx) ==
    IF has_option(opts, xx, "long-days-box") THEN "box-days-long"
    ELSE IF has_option(opts, xx, "short-days-box") THEN "box-days-short"
    ELSE "box-days"

\* the keyword arguments of the call of timepoint_str (lines 1354-1375)
timepoint_str_args(fd, a, opts, col, xx, station_code, train_spec, two_row, cell_codes, is_bus) ==
    [doing_html |-> a.doing_html,
     reverse |-> has_option(opts, xx, "reverse"),
     two_row |-> two_row,
     use_ar_dp_str |-> has_option(opts, xx, "ardp"),
     use_daystring |-> has_option(opts, xx, "days"),
     days_box_class |-> days_box_class(opts, xx),
     is_first_stop |-> ~cell_codes.none /\ cell_codes.first,
     is_last_stop |-> ~cell_codes.none /\ cell_codes.last,
     use_baggage_icon |-> col.use_baggage_icon_this_column,
     has_baggage |-> /\ train_has_checked_baggage(fd, train_spec_to_tsn(train_spec))
                     /\ station_has_checked_baggage(fd, station_code),
     use_bus_icon |-> col.use_bus_icon_this_column,
     is_bus |-> is_bus,
     no_rd |-> has_option(opts, xx, "no-rd")]

\* every train of the column is looked up, whatever the cell code names
train_specs_to_check_whole_column(train_specs, cell_codes) ==
    [i \in 1..Len(train_specs) |-> strip_noheader(train_specs[i])]

\* train_specs_to_check (lines 1262-1270)
train_specs_to_check(train_specs, cell_codes) ==
    IF codes_train_spec_given(cell_codes)
    THEN <<cell_codes.train_spec>>
    ELSE [i \in 1..Len(train_specs) |-> strip_noheader(train_specs[i])]

\* the blank branch without its assignment tt.iloc[y, x] = ""
blank_time_cell_unassigned(fd, to_check) ==
    Ok([text |-> NaNCell, css |-> <<" ", "blank-cell">>, tt_writes |-> 0, styler_writes |-> 1,
        call |-> NoFormatterCall])

\* the blank branch that never adds a colour class
blank_time_cell_white(fd, to_check) ==
    Filled(<<>>, <<<<"blank-cell">>>>)

\* the train does not stop here, or the cell code asks for a blank (lines 1282-1297)
blank_time_cell(fd, to_check) ==
    IF Len(to_check) = 1
    THEN Then(get_time_column_stylings(fd, to_check[1]), LAMBDA style :
              Filled(<<>>, <<<<"blank-cell">>, style>>))
    ELSE Filled(<<>>, <<<<"blank-cell">>>>)

\* the cell, with the locals the call of timepoint_str leaves behind
called(cell, station_code, kwargs) ==
    [cell EXCEPT !.val.call = [station_code |-> station_code, kwargs |-> kwargs]]

\* the main routine for putting a time in a cell (lines 1298-1376)
time_in_cell(fd, a, opts, col, dwell_map, xx, station_code, cell_codes, found) ==
    Then(get_time_column_stylings(fd, found.train_spec), LAMBDA style :
    Then(IF col.use_bus_icon_this_column
         THEN route_from_train_spec_local(fd, found.train_spec)
         ELSE Ok([route_type |-> 0]), LAMBDA route :
    Then(is_ardp_station(fd, a, dwell_map, station_code), LAMBDA ardp :
    Let(timepoint_str_args(fd, a, opts, col, xx, station_code, found.train_spec,
                           cell_two_row(ardp, cell_codes), cell_codes,
                           route.route_type = 3), LAMBDA kwargs :
        called(Filled(timepoint_str(found.timepoint, kwargs), <<<<"time-cell">>, style>>),
               station_code, kwargs)))))

\* the default case (lines 1234-1376): a station row in a train column
timed_cell(fd, a, opts, col, dwell_map, xx, station_code, train_specs, cell_codes) ==
    Then(stop_code_to_stop_id(fd, station_code), LAMBDA stop_id :
    Let(train_specs_to_check(train_specs, cell_codes), LAMBDA to_check :
    Then(find_timepoint(fd, to_check, 1, stop_id), LAMBDA found :
         IF found.timepoint = NoTimepoint \/ (~cell_codes.none /\ cell_codes.blank)
         THEN blank_time_cell(fd, to_check)
         ELSE time_in_cell(fd, a, opts, col, dwell_map, xx, station_code, cell_codes,
                           found))))

\* a route name of one word
style_route_name_for_column(route_name, doing_html) ==
    IF ~doing_html THEN route_name
    ELSE <<"<div class=box-route-name>">> \o route_name \o <<"</div>">>

\* the loop over the train specs of a route-name cell (lines 1042-1069), from
\* position i on; acc holds route_names and cell_css_list so far
RECURSIVE route_names_loop(_, _, _, _)
route_names_loop(fd, shown, i, acc) ==
    IF i > Len(shown) THEN Ok(acc)
    ELSE Then(trip_from_train_spec_local(fd, shown[i]), LAMBDA my_trip :
         Then(IF i = 1 THEN get_time_column_stylings(fd, shown[1]) ELSE Ok(<<>>),
              LAMBDA style :
              route_names_loop(fd, shown, i + 1,
                  [route_names |->
                       IF \/ acc.route_names = <<>>
                          \/ acc.route_names[Len(acc.route_names)]
                                 # get_route_name(my_trip.route_id)
                       THEN Append(acc.route_names, get_route_name(my_trip.route_id))
                       ELSE acc.route_names,
                   css |-> IF i = 1 THEN Append(acc.css, style) ELSE acc.css])))

\* case ["route-name", _, _] (lines 1037-1076)
route_name_cell(fd, a, train_specs) ==
    Then(route_names_loop(fd, SelectSeq(train_specs, LAMBDA ts : ~endswith(ts, "noheader")),
                          1, [route_names |-> <<>>, css |-> <<<<"route-name-cell">>>>]),
         LAMBDA r :
         Filled(join(IF a.doing_html THEN <<"<hr>">> ELSE <<"\n">>,
                     [k \in 1..Len(r.route_names) |->
                         style_route_name_for_column(r.route_names[k], a.doing_html)]),
                r.css))

style_updown(reverse, doing_html) ==
    IF doing_html
    THEN <<"<b>">> \o (IF reverse THEN <<"Read", " ", "Up">> ELSE <<"Read", " ", "Down">>)
         \o <<"</b>">>
    ELSE IF reverse THEN <<"Read", " ", "Up">> ELSE <<"Read", " ", "Down">>

\* case ["days" | "days-of-week", _, ""] (lines 1089-1102)
blank_days_cell(fd, train_specs) ==
    Then(get_time_column_stylings(fd, train_specs[1]), LAMBDA style :
         Filled(<<>>, <<<<"days-of-week-cell">>, style>>))

\* case ["days" | "days-of-week", _, reference_stop_code] (lines 1103-1156)
days_cell(fd, train_specs, cell) ==
    Then(stop_code_to_stop_id(fd, cell), LAMBDA reference_stop_id :
    Then(trip_from_train_spec_local(fd, train_specs[1]), LAMBDA my_trip :
    Then(get_timepoint_from_trip_id(fd, my_trip.trip_id, reference_stop_id),
         LAMBDA timepoint :
    Then(get_time_column_stylings(fd, train_specs[1]), LAMBDA style :
         Filled(IF timepoint = NoTimepoint THEN cell
                ELSE <<"days[" \o my_trip.service_id \o "]">>,
                <<<<"days-of-week-cell">>, style>>)))))

\* cases ["origin", _, _] and ["destination", _, _] (lines 1168-1195)
origin_destination_cell(grid, col, which) ==
    IF col.stations_df_for_column = <<>> THEN Raise("IndexError")
    ELSE IF which = "origin"
    THEN IF ~contains(get_stations_list(grid), col.stations_df_for_column[1])
         THEN Filled(<<"from[">> \o col.stations_df_for_column[1] \o <<"]">>, <<>>)
         ELSE Filled(<<>>, <<>>)
    ELSE IF ~contains(get_stations_list(grid),
                      col.stations_df_for_column[Len(col.stations_df_for_column)])
         THEN Filled(<<"to[">> \o col.stations_df_for_column[Len(col.stations_df_for_column)]
                     \o <<"]">>, <<>>)
         ELSE Filled(<<>>, <<>>)

\* case [_, "access", _] (lines 1211-1224)
access_cell(fd, station_code) ==
    Filled(IF station_code \in fd.accessible_stations THEN <<"[accessible]">>
           ELSE IF station_code \in fd.inaccessible_stations THEN <<"[inaccessible]">>
           ELSE <<>>,
           <<<<"access-cell">>>>)

\* the cell of a row with a blank key copied as it is, whatever its code
blank_key_cell_as_text(fd, cell_codes, cell) == Filled(cell, <<<<"special-cell">>>>)

\* case ["", _, raw_text] (lines 1010-1029)
blank_key_cell(fd, cell_codes, cell) ==
    IF ~cell_codes.none /\ cell_codes.blank
    THEN Then(get_time_column_stylings(fd, cell_codes.train_spec), LAMBDA style :
              Filled(<<>>, <<<<"blank-cell">>, style>>))
    ELSE Filled(cell, <<<<"special-cell">>>>)

\* case [_, "services", _] (lines 1206-1210)
services_cell == Filled(<<>>, <<<<"services-cell">>>>)

\* case [_, "timezone", _] (lines 1225-1233)
timezone_cell(fd, station_code) ==
    Then(stop_code_to_stop_id(fd, station_code), LAMBDA stop_id :
         Filled(<<"tz[" \o stop_id \o "]">>, <<<<"timezone-cell">>>>))

\* the spec cell after the simple substitution (lines 997-1003)
substituted(raw) ==
    IF get_cell_substitution(raw) # NoText THEN get_cell_substitution(raw) ELSE raw

\* the match statement (lines 1006-1376) on the row key sc, the column key ck
\* and the cell
match_cell(fd, a, opts, grid, col, dwell_map, xx, station_code, sc, ck, train_specs, cell_codes, cell) ==
    CASE sc = <<>> /\ cell = <<>> -> Filled(<<>>, <<>>)
      [] sc = <<>> /\ cell # <<>> -> blank_key_cell(fd, cell_codes, cell)
      [] sc = <<"route-name">> /\ ck \in special_column_names ->
           Filled(cell, <<<<"route-name-cell">>>>)
      [] sc = <<"route-name">> /\ ck \notin special_column_names ->
           route_name_cell(fd, a, train_specs)
      [] sc = <<"updown">> /\ ck \in special_column_names ->
           Filled(<<>>, <<<<"updown-cell">>>>)
      [] sc = <<"updown">> /\ ck \notin special_column_names ->
           Filled(style_updown(has_option(opts, xx, "reverse"), a.doing_html),
                  <<<<"updown-cell">>>>)
      [] sc \in {<<"days">>, <<"days-of-week">>} /\ ck \in special_column_names ->
           Filled(<<>>, <<<<"days-of-week-cell">>>>)
      [] sc \in {<<"days">>, <<"days-of-week">>} /\ ck \notin special_column_names ->
           IF cell = <<>> THEN blank_days_cell(fd, train_specs)
           ELSE days_cell(fd, train_specs, cell)
      [] OTHER ->
           IF cell # <<>> /\ cell_codes.none
           THEN Filled(cell, <<<<"special-cell">>>>)
           ELSE IF sc \in {<<"origin">>, <<"destination">>}
           THEN IF ck \in special_column_names THEN Filled(<<>>, <<>>)
                ELSE origin_destination_cell(grid, col, sc[1])
           ELSE IF ck \in {<<"station">>, <<"stations">>}
           THEN Filled(get_station_name_pretty(station_code), <<<<"station-cell">>>>)
           ELSE IF ck = <<"services">> THEN services_cell
           ELSE IF ck = <<"access">> THEN access_cell(fd, station_code)
           ELSE IF ck = <<"timezone">> THEN timezone_cell(fd, station_code)
           ELSE timed_cell(fd, a, opts, col, dwell_map, xx, station_code, train_specs,
                           cell_codes)

\* the row loop body with cell_codes left over from the row above
fill_cell_with_stale_codes(fd, a, grid, opts, col, dwell_map, xx, yy) ==
    Let(column_train_specs(grid, xx), LAMBDA train_specs :
        match_cell(fd, a, opts, grid, col, dwell_map, xx,
                   grid[yy + 1][1], lower(grid[yy + 1][1]), lower(column_key_str(grid, xx)),
                   train_specs,
                   get_cell_codes(grid[IF yy > 1 THEN yy ELSE yy + 1][xx + 1], train_specs),
                   substituted(grid[yy + 1][xx + 1])))

\* the row loop body for the cell (yy, xx)
fill_cell(fd, a, grid, opts, col, dwell_map, xx, yy) ==
    Let(column_train_specs(grid, xx), LAMBDA train_specs :
        match_cell(fd, a, opts, grid, col, dwell_map, xx,
                   grid[yy + 1][1], lower(grid[yy + 1][1]), lower(column_key_str(grid, xx)),
                   train_specs,
                   get_cell_codes(grid[yy + 1][xx + 1], train_specs),
                   substituted(grid[yy + 1][xx + 1])))

-----------------------------------------------------------------------------
(* fill_tt_spec as a state machine: Call runs lines 766-896, ColumnStep the *)
(* column prologue, CellStep one pass of the row loop, Return lines         *)
(* 1380-1415.  An exception ends the call at once.                          *)

MaxCalls == 2   \* how often the caller fills the same TTSpec

NoResult == [status |-> "none", error |-> "none", timetable |-> <<>>,
             styler_table |-> <<>>, columns |-> <<>>, header_styling_list |-> <<>>]

Raised(e) == [NoResult EXCEPT !.status = "raised", !.error = e]

NoLocals == [header_replacement_list |-> <<>>, header_styling_list |-> <<>>,
             stations_max_dwell_map |-> <<>>, col |-> <<>>,
             timepoint_str_call |-> NoFormatterCall]

row_count == Len(csv)

column_count == Len(csv[1])

blank_frame(grid, v) == [i \in 1..Len(grid) |-> [j \in 1..Len(grid[1]) |-> v]]

\* an exception that is caught: the loops end and what is filled so far is returned
Abort_returning(e) ==
    /\ pc' = "finish"
    /\ UNCHANGED <<tt, styler_t, locals, result, x, y>>

\* leaving the call by an exception: the locals are gone, the spec keeps what
\* was done to it
Abort(e) ==
    /\ pc' = "idle"
    /\ result' = Raised(e)
    /\ tt' = <<>> /\ styler_t' = <<>> /\ locals' = NoLocals
    /\ x' = 0 /\ y' = 0

Call ==
    /\ pc = "idle"
    /\ history.calls < MaxCalls
    /\ history' = [history EXCEPT !.calls = @ + 1, !.entry_csv = csv,
                                  !.previous = result]
    /\ UNCHANGED <<assets, aux, feed, args, fin, fout>>
    /\ \E opt \in {calculate_column_options(strip_omits(csv))} :
       IF opt.err # "none"
       THEN /\ csv' = strip_omits(csv) /\ UNCHANGED <<column_options, writes>>
            /\ Abort(opt.err)
       ELSE
       \E cco \in {opt.val} :
       \E aug \in {augment_from_key_cell(cco.csv, feed)} :
       \E dwell \in {IF aug.err = "none" /\ args.is_ardp_station = "dwell"
                     THEN make_stations_max_dwell_map(feed, aug.val, aux.dwell_secs_cutoff)
                     ELSE Ok(<<>>)} :
          /\ column_options' = cco.column_options
          /\ IF aug.err # "none"
             THEN csv' = cco.csv /\ UNCHANGED writes /\ Abort(aug.err)
             ELSE IF dwell.err # "none"
             THEN csv' = aug.val /\ UNCHANGED writes /\ Abort(dwell.err)
             ELSE /\ csv' = aug.val
                  /\ tt' = blank_frame(aug.val, NaNCell)
                  /\ styler_t' = blank_frame(aug.val, NaNCell)
                  /\ writes' = [tt |-> blank_frame(aug.val, 0),
                                styler_t |-> blank_frame(aug.val, 0)]
                  /\ locals' = [NoLocals EXCEPT !.stations_max_dwell_map = dwell.val]
                  /\ result' = NoResult
                  /\ x' = 1 /\ y' = 0
                  /\ pc' = IF Len(aug.val[1]) > 1 THEN "column" ELSE "finish"

ColumnStep ==
    /\ pc = "column"
    /\ UNCHANGED <<assets, csv, column_options, aux, feed, args, history,
                   fin, fout, writes>>
    /\ \E pro \in {column_prologue(feed, aux, args, csv, column_options, x)} :
          IF pro.err # "none" THEN Abort(pro.err)
          ELSE /\ locals' = [locals EXCEPT
                     !.header_replacement_list = Append(@, pro.val.column_header),
                     !.header_styling_list = Append(@, pro.val.column_header_styling),
                     !.col = pro.val]
               /\ UNCHANGED <<tt, styler_t, result>>
               /\ IF row_count > 1 THEN pc' = "row" /\ x' = x /\ y' = 1
                  ELSE IF x + 1 < column_count THEN pc' = "column" /\ x' = x + 1 /\ y' = 0
                  ELSE pc' = "finish" /\ x' = x /\ y' = 0

CellStep ==
    /\ pc = "row"
    /\ UNCHANGED <<assets, column_options, aux, feed, args, history, fin, fout>>
    /\ csv' = [csv EXCEPT ![y + 1][x + 1] = substituted(@)]
    /\ \E c \in {fill_cell(feed, args, csv, column_options, locals.col,
                           locals.stations_max_dwell_map, x, y)} :
          IF c.err # "none" THEN UNCHANGED writes /\ Abort(c.err)
          ELSE /\ tt' = [tt EXCEPT ![y + 1][x + 1] = c.val.text]
               /\ styler_t' = [styler_t EXCEPT ![y + 1][x + 1] = c.val.css]
               /\ writes' = [tt |-> [writes.tt EXCEPT ![y + 1][x + 1] = @ + c.val.tt_writes],
                             styler_t |-> [writes.styler_t EXCEPT
                                              ![y + 1][x + 1] = @ + c.val.styler_writes]]
               /\ locals' = IF c.val.call.station_code = <<>> THEN locals
                            ELSE [locals EXCEPT !.timepoint_str_call = c.val.call]
               /\ UNCHANGED result
               /\ IF y + 1 < row_count THEN pc' = "row" /\ x' = x /\ y' = y + 1
                  ELSE IF x + 1 < column_count THEN pc' = "column" /\ x' = x + 1 /\ y' = 0
                  ELSE pc' = "finish" /\ x' = x /\ y' = 0

\* DataFrame.drop of the placeholder column 0 and row 0
drop_placeholders(frame) ==
    [i \in 1..(Len(frame) - 1) |-> SubSeq(frame[i + 1], 2, Len(frame[i + 1]))]

\* the headers as they are, without the column number in front
header_replacement_list_as_is(header_replacement_list) == header_replacement_list

\* "<!-- i -->" + header; the text "-->" is an atom of its own
unique_header_replacement_list(header_replacement_list) ==
    [i \in 1..Len(header_replacement_list) |->
        <<"<!-- ", ToString(i - 1), " ", "-->">> \o header_replacement_list[i]]

\* str.find("-->"): the place of the first "-->", -1 if there is none
find_arrow(text) ==
    IF \E i \in 1..Len(text) : text[i] = "-->"
    THEN (CHOOSE i \in 1..Len(text) :
              text[i] = "-->" /\ \A j \in 1..(i - 1) : text[j] # "-->") - 1
    ELSE 0 - 1

\* text[start:] of Python, where a negative start counts from the end
slice_from(text, start) ==
    IF start >= 0 THEN SubSeq(text, start + 1, Len(text))
    ELSE SubSeq(text, IF Len(text) + start < 0 THEN 1 ELSE Len(text) + start + 1, Len(text))

\* the column labels write_csv_file gives the CSV
non_unique_header_replacement_list(columns) ==
    [i \in 1..Len(columns) |->
        removeprefix(slice_from(columns[i], find_arrow(columns[i])), <<"-->">>)]

Return ==
    /\ pc = "finish"
    /\ result' = [status |-> "returned", error |-> "none",
                  timetable |-> drop_placeholders(tt),
                  styler_table |-> drop_placeholders(styler_t),
                  columns |-> unique_header_replacement_list(locals.header_replacement_list),
                  header_styling_list |-> locals.header_styling_list]
    /\ pc' = "idle"
    /\ tt' = <<>> /\ styler_t' = <<>> /\ locals' = NoLocals
    /\ x' = 0 /\ y' = 0
    /\ UNCHANGED <<assets, csv, column_options, aux, feed, args, writes, history,
                   fin, fout>>

Next == Call \/ ColumnStep \/ CellStep \/ Return

-----------------------------------------------------------------------------
(* The inputs of the model: feeds, specs and call arguments *)

DwellCutoffDefault == 300

\* a stop_times row; the times are seconds after midnight
StopTime(trip_id, stop_id, arr, dep, drop_off_type, pickup_type) ==
    [trip_id |-> trip_id, stop_id |-> stop_id, arrival_time |-> arr,
     departure_time |-> dep, drop_off_type |-> drop_off_type,
     pickup_type |-> pickup_type, timepoint |-> "absent"]

\* how train 59 calls at A: not at all, without dwell, with a 6 minute dwell,
\* discharge-only, twice
Calls59A == {"no", "short", "long", "discharge", "twice"}

rows59A(c) ==
    CASE c = "no" -> <<>>
      [] c = "short" -> <<StopTime("T59", "A", 600, 600, 0, 0)>>
      [] c = "long" -> <<StopTime("T59", "A", 600, 960, 0, 0)>>
      [] c = "discharge" -> <<StopTime("T59", "A", 600, 600, 0, 1)>>
      [] c = "twice" -> <<StopTime("T59", "A", 600, 600, 0, 0),
                          StopTime("T59", "A", 3000, 3000, 0, 0)>>

\* train 59 is a train with checked baggage, train 174 a bus; 174 has a two
\* minute dwell at A when it calls there; nothing runs as train 99
MkFeed(c59A, b59B, b174A) ==
    [trips |-> <<[trip_id |-> "T59", trip_short_name |-> "59", route_id |-> "R1",
                  service_id |-> "S1", days |-> {"monday"}],
                 [trip_id |-> "T174", trip_short_name |-> "174", route_id |-> "R2",
                  service_id |-> "S2", days |-> {}]>>,
     routes |-> <<[route_id |-> "R1", route_type |-> 2],
                  [route_id |-> "R2", route_type |-> 3]>>,
     stop_times |-> rows59A(c59A)
                    \o (IF b59B THEN <<StopTime("T59", "B", 1200, 1200, 0, 0)>> ELSE <<>>)
                    \o (IF b174A THEN <<StopTime("T174", "A", 50000, 50120, 0, 0)>> ELSE <<>>)
                    \o <<StopTime("T174", "B", 50400, 50400, 0, 0),
                         StopTime("T174", "C", 51000, 51000, 0, 0)>>,
     stops |-> {"A", "B", "C"},
     baggage_trains |-> {<<"59">>},
     baggage_stations |-> {<<"A">>},
     major_stations |-> {<<"B">>},
     accessible_stations |-> {<<"A">>},
     inaccessible_stations |-> {<<"B">>}]

\* train 59 goes on to B in the feeds where it calls at A without dwell
Feeds == {MkFeed(c, c = "short", b) : c \in Calls59A, b \in BOOLEAN}

\* column keys of the train column
TrainKeys == {<<"59">>, <<"59", "/", "174">>, <<"59", " ", "noheader", "/", "174">>,
              <<"99">>, <<"59", "/", "99">>}

\* texts of the varied cell
CellTexts == {<<>>, <<"59", " ", "last">>, <<"99", " ", "last">>, <<"99", " ", "blank">>,
              <<"59", " ", "blank">>, <<"174">>, <<"59", " ", "two_row">>,
              <<"59", " ", "first">>, <<"last">>, <<"To", " ", "Chicago">>,
              <<"59", " ", "first", " ", "two_row">>,
              <<"blank">>, <<"downarrow">>}

\* rows in front of the body: none, a column-options row, an omit row and a
\* column-options row
Preambles == {"plain", "options", "omit+options"}

preamble_rows(p) ==
    CASE p = "plain" -> <<>>
      [] p = "options" -> <<<<<<"column-options">>, <<"reverse", " ", "ardp">>, <<>>>>>>
      [] p = "omit+options" ->
           <<<<<<"omit">>, <<"a", " ", "comment">>, <<>>>>,
             <<<<"column_options">>, <<"reverse">>, <<>>>>>>

\* row keys of the body; the varied cell is in the train column of row `target`
BodyKeys == <<<<"updown">>, <<>>, <<"A">>, <<"B">>>>

MkGrid(key, p, target, text) ==
    <<<<<<>>, key, <<"stations">>>>>>
    \o preamble_rows(p)
    \o [i \in 1..Len(BodyKeys) |->
           <<BodyKeys[i], IF i = target THEN text ELSE <<>>, <<>>>>]

ArdpModes == {"False", "True", "major", "dwell"}

\* the module globals of timetable.py as the import leaves them
NoAssets ==
    /\ prepared_output_dirs = <<>>
    /\ prepared_output_dirs_for_rpa = <<>>
    /\ copy_log = <<>>

\* fill_tt_spec is not running a function on its own
InitFunction == fin = <<>> /\ fout = <<>>

InitFill ==
    /\ \E key \in TrainKeys, p \in Preambles, target \in {2, 3}, text \in CellTexts :
           /\ key = <<"59", "/", "174">> \/ (p = "plain" /\ target = 3)
           /\ p = "plain" \/ target = 3
           /\ csv = MkGrid(key, p, target, text)
    /\ column_options = <<>>
    /\ aux = [dwell_secs_cutoff |-> DwellCutoffDefault, use_bus_icon_in_cells |-> FALSE,
              train_numbers_side_by_side |-> FALSE]
    /\ feed \in Feeds
    /\ args \in [doing_html : BOOLEAN, is_ardp_station : ArdpModes]
    /\ pc = "idle" /\ x = 0 /\ y = 0
    /\ tt = <<>> /\ styler_t = <<>>
    /\ writes = [tt |-> <<>>, styler_t |-> <<>>]
    /\ locals = NoLocals
    /\ result = NoResult
    /\ history = [calls |-> 0, entry_csv |-> <<>>, previous |-> NoResult]

Init == InitFill /\ InitFunction /\ NoAssets

Spec == Init /\ [][Next]_vars

-----------------------------------------------------------------------------
(* timepoint_str on its own: fin holds the timepoint and the keyword        *)
(* arguments, fout what the function returned                               *)

\* fill_tt_spec is not running
NoFill ==
    /\ csv = <<>> /\ column_options = <<>> /\ aux = <<>> /\ feed = <<>> /\ args = <<>>
    /\ x = 0 /\ y = 0 /\ tt = <<>> /\ styler_t = <<>> /\ writes = <<>>
    /\ locals = NoLocals /\ result = NoResult
    /\ history = [calls |-> 0, entry_csv |-> <<>>, previous |-> NoResult]
    /\ NoAssets

\* arrival and departure: no dwell in the morning, a dwell, no dwell in the
\* afternoon, no times
TimePairs == {<<600, 600>>, <<600, 960>>, <<46800, 46800>>, <<NaT, NaT>>}

Timepoints ==
    {[StopTime("T59", "A", t[1], t[2], d, p) EXCEPT !.timepoint = tp] :
         t \in TimePairs, d \in 0..2, p \in 0..2, tp \in {"absent", "0"}}

\* the keyword arguments fill_tt_spec can pass: a cell code sets first or last,
\* never both, and a cell is a bus only in a column with bus icons
TimepointFlags ==
    {[doing_html |-> h, reverse |-> r, two_row |-> t, use_ar_dp_str |-> a,
      use_daystring |-> d, days_box_class |-> "box-days",
      is_first_stop |-> (fl = "first"), is_last_stop |-> (fl = "last"),
      use_baggage_icon |-> ic # "none", has_baggage |-> ic = "shown",
      use_bus_icon |-> ic # "none", is_bus |-> ic = "shown", no_rd |-> n] :
         h \in BOOLEAN, r \in BOOLEAN, t \in BOOLEAN, a \in BOOLEAN, d \in BOOLEAN,
         fl \in {"", "first", "last"}, ic \in {"none", "blank", "shown"}, n \in BOOLEAN}

InitTimepoint ==
    /\ NoFill
    /\ pc = "timepoint_str"
    /\ fin \in [timepoint : Timepoints, f : TimepointFlags]
    /\ fout = <<>>

Render ==
    /\ pc = "timepoint_str"
    /\ fout' = timepoint_str(fin.timepoint, fin.f)
    /\ pc' = "done"
    /\ UNCHANGED <<assets, csv, column_options, aux, feed, args, x, y, tt, styler_t,
                   writes, locals, result, history, fin>>

NextTimepoint == Render

SpecTimepoint == InitTimepoint /\ [][NextTimepoint]_vars

-----------------------------------------------------------------------------
(* make_stations_max_dwell_map on its own: fin holds the spec grid, the     *)
(* feed and the cutoff, fout the map or the exception                       *)

\* how a train calls at A: not at all, or with arrival, departure, drop_off_type
\* and pickup_type
DwellCalls59A == {<<>>, <<600, 600, 0, 0>>, <<600, 900, 0, 0>>, <<600, 960, 0, 0>>,
                  <<600, 960, 1, 0>>, <<600, 960, 0, 1>>}

DwellCalls174A == {<<>>, <<50000, 50120, 0, 0>>, <<50000, 50400, 0, 0>>}

dwell_rows(trip_id, c) ==
    IF c = <<>> THEN <<>> ELSE <<StopTime(trip_id, "A", c[1], c[2], c[3], c[4])>>

DwellFeed(c59, c174) ==
    [MkFeed("no", TRUE, FALSE) EXCEPT
        !.stop_times = dwell_rows("T59", c59) \o dwell_rows("T174", c174) \o @]

\* row 0 of the spec: one or two train columns
DwellKeys == {<<<<"59">>, <<"stations">>>>, <<<<"59", "/", "174">>, <<"stations">>>>,
              <<<<"59", " ", "noheader", "/", "174">>, <<"stations">>>>,
              <<<<"59">>, <<"174">>>>, <<<<"174">>, <<"stations">>>>,
              <<<<"stations">>, <<"access">>>>, <<<<"59", "/", "99">>, <<"stations">>>>}

DwellGrid(keys) ==
    <<<<<<>>>> \o keys>>
    \o [i \in 1..Len(BodyKeys) |-> <<BodyKeys[i], <<>>, <<>>>>]

DwellCutoffs == {DwellCutoffDefault, 400}

InitDwell ==
    /\ NoFill
    /\ pc = "make_stations_max_dwell_map"
    /\ fin \in {[grid |-> DwellGrid(k), feed |-> DwellFeed(c59, c174), cutoff |-> c] :
                   k \in DwellKeys, c59 \in DwellCalls59A, c174 \in DwellCalls174A,
                   c \in DwellCutoffs}
    /\ fout = <<>>

Classify ==
    /\ pc = "make_stations_max_dwell_map"
    /\ fout' = make_stations_max_dwell_map(fin.feed, fin.grid, fin.cutoff)
    /\ pc' = "done"
    /\ UNCHANGED <<assets, csv, column_options, aux, feed, args, x, y, tt, styler_t,
                   writes, locals, result, history, fin>>

NextDwell == Classify

SpecDwell == InitDwell /\ [][NextDwell]_vars

-----------------------------------------------------------------------------
(* Properties of timepoint_str (under SpecTimepoint)                        *)

\* the text of a time in the output
TimeText(t) == IF t = NaT THEN "---" ELSE TimeAtom(t)

\* the lines of the returned string
OutLines == split(fout, linebreak(fin.f)[1])

ArrivalLine == IF fin.f.reverse THEN OutLines[2] ELSE OutLines[1]

DepartureLine == IF fin.f.reverse THEN OutLines[1] ELSE OutLines[2]

shows_time(line) ==
    \/ contains(line, TimeText(fin.timepoint.arrival_time))
    \/ contains(line, TimeText(fin.timepoint.departure_time))

\* the marker stands in front of the time
marker_before_time(line, marker, t) ==
    \E i \in 1..Len(line) : \E j \in (i + 1)..Len(line) :
        line[i] = marker /\ line[j] = TimeText(t)

Rendered == pc = "done"

DischargeCodes == fin.timepoint.pickup_type = 1 /\ fin.timepoint.drop_off_type = 0

ReceiveCodes == fin.timepoint.drop_off_type = 1 /\ fin.timepoint.pickup_type = 0

\* C6 as stated: a stop with drop_off_type=1, pickup_type=0 that is not flagged
\* is_last_stop shows the 'D' marker on the arrival side, and in two-row mode
\* its departure line is blank.  (Taken with the markers switched on and the
\* cell not flagged is_first_stop.)
C6_MarkerDOnDropOffOne ==
    (Rendered /\ ReceiveCodes /\ ~fin.f.is_last_stop /\ ~fin.f.is_first_stop /\ ~fin.f.no_rd)
    => IF fin.f.two_row
       THEN contains(ArrivalLine, "D") /\ ~shows_time(DepartureLine)
       ELSE contains(fout, "D")

\* C6, amended: the 'D' marker belongs to pickup_type=1, drop_off_type=0.  Such
\* a stop, not flagged is_last_stop and with the markers on, shows 'D' in front of
\* the arrival time; in two-row mode that is on the arrival line (left out when
\* the cell is flagged is_first_stop) and the departure line has no marker and no
\* time.  A stop with drop_off_type=1, pickup_type=0, flagged neither first nor
\* last, shows 'R' in front of the departure time, and in two-row mode it is the
\* arrival line that has no marker and no time.
C6_DischargeOnlyMarker ==
    /\ (Rendered /\ DischargeCodes /\ ~fin.f.is_last_stop /\ ~fin.f.no_rd)
       => IF fin.f.two_row
          THEN /\ Len(OutLines) = 2
               /\ ~shows_time(DepartureLine)
               /\ ~contains(DepartureLine, "D")
               /\ IF fin.f.is_first_stop THEN ArrivalLine = <<>>
                  ELSE marker_before_time(ArrivalLine, "D", fin.timepoint.arrival_time)
          ELSE /\ Len(OutLines) = 1
               /\ marker_before_time(fout, "D", fin.timepoint.arrival_time)
    /\ (Rendered /\ ReceiveCodes /\ ~fin.f.is_last_stop /\ ~fin.f.is_first_stop
          /\ ~fin.f.no_rd)
       => /\ ~contains(fout, "D")
          /\ IF fin.f.two_row
             THEN /\ Len(OutLines) = 2
                  /\ ~shows_time(ArrivalLine)
                  /\ ~contains(ArrivalLine, "R")
                  /\ marker_before_time(DepartureLine, "R", fin.timepoint.departure_time)
             ELSE marker_before_time(fout, "R", fin.timepoint.departure_time)

\* a discharge-only stop with a dwell rendered in two rows, in reverse order
C6_Witness ==
    /\ Rendered /\ DischargeCodes /\ fin.f.two_row /\ fin.f.reverse
    /\ ~fin.f.is_last_stop /\ ~fin.f.is_first_stop /\ ~fin.f.no_rd
    /\ fin.timepoint.arrival_time # fin.timepoint.departure_time
    /\ contains(ArrivalLine, "D")

\* C8 as stated: in two-row mode with arrival_time == departure_time exactly one
\* of the two lines shows a time, and the two lines are joined by one line break,
\* whatever the pickup/drop-off codes, the reverse flag and the first/last flags
C8_ZeroDwellOneTimedLine ==
    (Rendered /\ fin.f.two_row /\ fin.timepoint.arrival_time # NaT
        /\ fin.timepoint.arrival_time = fin.timepoint.departure_time)
    => /\ Len(OutLines) = 2
       /\ shows_time(OutLines[1]) # shows_time(OutLines[2])

\* the same without the two combinations of a flag with the opposite codes
C8_ExceptContradictoryFlags ==
    (Rendered /\ fin.f.two_row /\ fin.timepoint.arrival_time # NaT
        /\ fin.timepoint.arrival_time = fin.timepoint.departure_time
        /\ ~(fin.f.is_first_stop /\ DischargeCodes)
        /\ ~(fin.f.is_last_stop /\ ReceiveCodes))
    => /\ Len(OutLines) = 2
       /\ shows_time(OutLines[1]) # shows_time(OutLines[2])

-----------------------------------------------------------------------------
(* Properties of make_stations_max_dwell_map (under SpecDwell)              *)

Classified == pc = "done" /\ fout.err = "none"

\* the train specs named in row 0 of the spec grid
ReferencedTrainSpecs ==
    {strip_noheader(strip(piece)) :
        piece \in UNION {{split(fin.grid[1][c], "/")[n] :
                             n \in 1..Len(split(fin.grid[1][c], "/"))} :
                         c \in 2..Len(fin.grid[1])}}
    \ special_column_names

\* the stop_times rows of the train at the station
CallsAt(train_spec, station) ==
    {n \in 1..Len(fin.feed.stop_times) :
        /\ fin.feed.stop_times[n].trip_id = train_spec_to_trip_id(fin.feed)[train_spec]
        /\ <<fin.feed.stop_times[n].stop_id>> = station}

\* the dwell the claim gives a train at a station
ClaimedDwell(train_spec, station) ==
    IF CallsAt(train_spec, station) = {} THEN 0
    ELSE LET r == fin.feed.stop_times[CHOOSE n \in CallsAt(train_spec, station) : TRUE]
         IN IF r.drop_off_type = 1 \/ r.pickup_type = 1 THEN 0
            ELSE r.departure_time - r.arrival_time

SpecStations == {fin.grid[r][1] : r \in 2..Len(fin.grid)} \ special_row_names

\* C5: each station of the spec is mapped to True exactly when some train spec
\* of row 0 (slash groups flattened, noheader stripped) dwells there for at
\* least dwell_secs_cutoff seconds, a dwell being departure minus arrival, 0 for
\* a train that does not stop there and 0 for a stop with drop_off_type 1 or
\* pickup_type 1
C5_DwellMap ==
    Classified
    => /\ DOMAIN fout.val = SpecStations
       /\ \A station \in SpecStations :
              fout.val[station]
                  = (\E ts \in ReferencedTrainSpecs :
                         ClaimedDwell(ts, station) >= fin.cutoff)

\* the example of the claim: cutoff 300, dwells of 360 and 120 seconds at A
C5_Witness ==
    /\ Classified
    /\ fin.cutoff = 300
    /\ ReferencedTrainSpecs = {<<"59">>, <<"174">>}
    /\ ClaimedDwell(<<"59">>, <<"A">>) = 360
    /\ ClaimedDwell(<<"174">>, <<"A">>) = 120
    /\ fout.val[<<"A">>]

-----------------------------------------------------------------------------
(* Properties of fill_tt_spec (under Spec)                                  *)

Returned == pc = "idle" /\ result.status = "returned"

CallEnded == pc = "idle" /\ history.calls >= 1

\* the row of the spec grid with the station code A, and the train column
RowA == CHOOSE r \in 1..Len(csv) : csv[r][1] = <<"A">>

ColumnKey == csv[1][2]

\* the cell of station A in the train column: in the spec, and in the result
SpecCellA == csv[RowA][2]

ContentA == result.timetable[RowA - 1][1]

StyleA == result.styler_table[RowA - 1][1]

grid_shape_ok(frame) ==
    /\ Len(frame) = Len(csv) - 1
    /\ \A r \in 1..Len(frame) : Len(frame[r]) = Len(csv[1]) - 1

\* C1: the grids of the result have one row less and one column less than the
\* normalised spec grid, and every cell at row >= 1, column >= 1 is assigned
\* exactly once in the content grid and once in the style grid (never twice at
\* any point of the fill)
C1_EveryCellAssignedOnce ==
    /\ Returned
       => /\ grid_shape_ok(result.timetable)
          /\ grid_shape_ok(result.styler_table)
          /\ Len(result.columns) = Len(csv[1]) - 1
          /\ \A r \in 2..Len(csv) : \A c \in 2..Len(csv[1]) :
                 writes.tt[r][c] = 1 /\ writes.styler_t[r][c] = 1
    /\ pc \in {"column", "row", "finish"}
       => \A r \in 1..Len(csv) : \A c \in 1..Len(csv[1]) :
              /\ writes.tt[r][c] <= 1 /\ writes.styler_t[r][c] <= 1
              /\ (r = 1 \/ c = 1) => writes.tt[r][c] = 0 /\ writes.styler_t[r][c] = 0

\* a fill that returned after the normaliser took an omit row and the
\* column-options row out, with a cell where no train stops
C1_Witness ==
    /\ Returned
    /\ Len(history.entry_csv) = Len(csv) + 2
    /\ Len(result.timetable) = 4
    /\ ContentA = <<>>
    /\ StyleA = <<" ", "blank-cell">>

\* C2 as stated: a second fill of the same TTSpec returns the same content grid,
\* style grid, header labels and header stylings as the first
C2_SecondFillSame ==
    (Returned /\ history.calls = 2 /\ history.previous.status = "returned")
    => result = history.previous

\* C3 as stated: after a call, returned or raised, the spec grid has the rows and
\* the cell texts it had before the call
C3_SpecGridUnchanged == CallEnded => csv = history.entry_csv

no_cell_unassigned(frame) ==
    \A r \in 1..Len(frame) : \A c \in 1..Len(frame[r]) : frame[r][c] # NaNCell

\* C4: a call returns grids in which every cell is filled, or it raises and
\* returns nothing; an exception in a column header or in a cell ends the whole
\* call with that exception
C4_CompleteOrRaises ==
    /\ [](/\ Returned
             => /\ grid_shape_ok(result.timetable) /\ no_cell_unassigned(result.timetable)
                /\ grid_shape_ok(result.styler_table)
                /\ no_cell_unassigned(result.styler_table)
          /\ result.status = "raised"
             => result.timetable = <<>> /\ result.styler_table = <<>>
          /\ pc # "idle" => result.status = "none")
    /\ [][/\ (pc = "row"
               /\ fill_cell(feed, args, csv, column_options, locals.col,
                            locals.stations_max_dwell_map, x, y).err # "none")
             => /\ pc' = "idle"
                /\ result' = Raised(fill_cell(feed, args, csv, column_options, locals.col,
                                              locals.stations_max_dwell_map, x, y).err)
          /\ (pc = "column"
               /\ column_prologue(feed, aux, args, csv, column_options, x).err # "none")
             => /\ pc' = "idle"
                /\ result' = Raised(column_prologue(feed, aux, args, csv, column_options,
                                                    x).err)]_vars

\* a call that raised in a cell after other cells of the column were filled
C4_Witness ==
    /\ CallEnded
    /\ result = Raised("InputError")
    /\ \E r \in 2..Len(writes.tt) : writes.tt[r][2] = 1

\* the rows of train 59 at station A in the feed
Rows59A ==
    {n \in 1..Len(feed.stop_times) :
        feed.stop_times[n].trip_id = "T59" /\ feed.stop_times[n].stop_id = "A"}

Row174A ==
    {n \in 1..Len(feed.stop_times) :
        feed.stop_times[n].trip_id = "T174" /\ feed.stop_times[n].stop_id = "A"}

Override59Last ==
    /\ ColumnKey = <<"59", "/", "174">>
    /\ SpecCellA = <<"59", " ", "last">>

\* C7: in the shared column 59/174 the cell "59 last" of a station is a one-row
\* cell with the arrival time of train 59 and the style of train 59: no line
\* break, no departure time, no time of train 174, the arrival label where the
\* column has the ardp option, and no 'D' marker; it is blank, in the style of
\* train 59, when train 59 does not stop there
C7_Override59Last ==
    (Returned /\ Override59Last)
    => IF Rows59A = {}
       THEN ContentA = <<>> /\ StyleA = <<" ", "blank-cell", " ", "color[", "59", "]">>
       ELSE LET tp == feed.stop_times[CHOOSE n \in Rows59A : TRUE]
            IN /\ contains(ContentA, TimeText(tp.arrival_time))
               /\ tp.departure_time # tp.arrival_time
                  => ~contains(ContentA, TimeText(tp.departure_time))
               /\ \A n \in Row174A :
                      /\ ~contains(ContentA, TimeText(feed.stop_times[n].arrival_time))
                      /\ ~contains(ContentA, TimeText(feed.stop_times[n].departure_time))
               /\ ~contains(ContentA, "<br>") /\ ~contains(ContentA, "\n")
               /\ ~contains(ContentA, "D")
               /\ StyleA = <<" ", "time-cell", " ", "color[", "59", "]">>
               /\ contains(column_options[2], <<"ardp">>)
                  => (contains(ContentA, "Ar") \/ contains(ContentA, "Ar "))

\* train 59 dwells six minutes at A, so that the dwell classifier makes A a
\* two-row station, and train 174 calls there as well
C7_Witness ==
    /\ Returned /\ Override59Last
    /\ args.is_ardp_station = "dwell"
    /\ Rows59A # {} /\ Row174A # {}
    /\ \E n \in Rows59A :
           feed.stop_times[n].departure_time - feed.stop_times[n].arrival_time = 360
    /\ contains(ContentA, TimeText(600))

\* a cell code that names a train which is not one of the column
UnlistedOverride ==
    /\ ColumnKey \in {<<"59">>, <<"59", "/", "174">>, <<"59", " ", "noheader", "/", "174">>}
    /\ SpecCellA \in {<<"99", " ", "last">>, <<"99", " ", "blank">>}

C10_MissingTrainInputError ==
    (CallEnded /\ ColumnKey \in {<<"99">>, <<"59", "/", "99">>})
    => result = Raised("InputError")

-----------------------------------------------------------------------------
(* augment_from_key_cell on its own: fin holds the spec grid and the feed,  *)
(* fout the new spec.csv or the exception                                   *)

\* the order in which train 59 calls: the stop_times rows of a trip are in
\* stop order, with the rows of train 174 in between
AugCalls59 == {<<"A", "B", "C">>, <<"C", "B", "A">>, <<"A", "B">>, <<"B">>, <<>>}

AugFeed(calls) ==
    [MkFeed("no", FALSE, FALSE) EXCEPT
        !.stop_times = [i \in 1..Len(calls) |->
                           StopTime("T59", calls[i], 600 * i, 600 * i, 0, 0)]
                       \o @]

AugKeyCells == {<<>>, <<"stations", " ", "of", " ", "59">>,
                <<"stations", " ", "of", " ", "59", " ", "monday">>,
                <<"stations", " ", "of", " ", "174">>,
                <<"stations", " ", "of", " ", "99">>,
                <<"Stations", " ", "of", " ", "59">>, <<"59">>}

\* the rows below row 0: none, keyword rows, a station row of the spec's own
AugBodies == {<<>>, <<<<"route-name">>, <<"updown">>>>, <<<<"Z">>>>,
              <<<<"days">>, <<"A">>>>}

AugGrid(key_code, body) ==
    <<<<key_code, <<"59">>, <<"stations">>>>>>
    \o [i \in 1..Len(body) |-> <<body[i], <<>>, <<>>>>]

InitAugment ==
    /\ NoFill
    /\ pc = "augment_from_key_cell"
    /\ fin \in {[grid |-> AugGrid(k, b), feed |-> AugFeed(c)] :
                   k \in AugKeyCells, b \in AugBodies, c \in AugCalls59}
    /\ fout = <<>>

Augment ==
    /\ pc = "augment_from_key_cell"
    /\ fout' = augment_from_key_cell(fin.grid, fin.feed)
    /\ pc' = "done"
    /\ UNCHANGED <<assets, csv, column_options, aux, feed, args, x, y, tt, styler_t,
                   writes, locals, result, history, fin>>

NextAugment == Augment

SpecAugment == InitAugment /\ [][NextAugment]_vars

-----------------------------------------------------------------------------
(* Properties of augment_from_key_cell (under SpecAugment)                  *)

Augmented == pc = "done"

\* the key cell is 'stations of 59' and trip 59 calls at A, B, C in that order
KeyCell59ABC ==
    /\ Augmented
    /\ fin.grid[1][1] = <<"stations", " ", "of", " ", "59">>
    /\ SelectSeq(fin.feed.stop_times, LAMBDA r : r.trip_id = "T59")
         = <<StopTime("T59", "A", 600, 600, 0, 0), StopTime("T59", "B", 1200, 1200, 0, 0),
             StopTime("T59", "C", 1800, 1800, 0, 0)>>

\* C11 as stated: with key cell 'stations of 59' and trip 59 calling at A, B, C
\* in that order, the station list after augment_from_key_cell is exactly
\* [A, B, C] and cell (0, 0) is blank, whatever rows the spec has
C11_StationsOf59 ==
    KeyCell59ABC =>
        /\ fout.err = "none"
        /\ get_stations_list(fout.val) = <<<<"A">>, <<"B">>, <<"C">>>>
        /\ fout.val[1][1] = <<>>

\* C11 amended: the stations of trip 59 are appended in stop order behind the
\* station rows the spec already has, and cell (0, 0) is blank; the station
\* list is exactly [A, B, C] when the spec has no station rows of its own
C11_StationsOf59Appended ==
    KeyCell59ABC =>
        /\ fout.err = "none"
        /\ get_stations_list(fout.val)
             = get_stations_list(fin.grid) \o <<<<"A">>, <<"B">>, <<"C">>>>
        /\ fout.val[1][1] = <<>>
        /\ get_stations_list(fin.grid) = <<>>
             => get_stations_list(fout.val) = <<<<"A">>, <<"B">>, <<"C">>>>

C11_Witness ==
    /\ KeyCell59ABC
    /\ Len(fin.grid) = 3
    /\ get_stations_list(fin.grid) = <<>>
    /\ get_stations_list(fout.val) = <<<<"A">>, <<"B">>, <<"C">>>>

-----------------------------------------------------------------------------
(* trip_from_train_spec_local and route_from_train_spec_local on their own: *)
(* fin holds the feed, the train spec and a filtered trips frame, fout the  *)
(* trip, the route and the outcome of the check of the frame                *)

Trip59 == [trip_id |-> "T59", trip_short_name |-> "59", route_id |-> "R1",
           service_id |-> "S1", days |-> {"monday"}]

Trip174 == [trip_id |-> "T174", trip_short_name |-> "174", route_id |-> "R2",
            service_id |-> "S2", days |-> {}]

\* a trip whose trip_short_name is the text "59 monday"
Trip59Monday == [trip_id |-> "T59M", trip_short_name |-> "59 monday", route_id |-> "R2",
                 service_id |-> "S3", days |-> {}]

\* trips tables: one row per trip, trip T59 twice, trip T174 twice, a trip
\* named "59 monday" next to train 59 that runs on Mondays
ResolveTrips == {<<Trip59, Trip174>>, <<Trip59, Trip174, Trip59>>,
                 <<Trip59, Trip174, [Trip174 EXCEPT !.route_id = "R1"]>>,
                 <<Trip59, Trip174, Trip59Monday>>}

\* routes tables: both routes, the route of train 59 missing, no routes
ResolveRoutes == {<<[route_id |-> "R1", route_type |-> 2], [route_id |-> "R2", route_type |-> 3]>>,
                  <<[route_id |-> "R2", route_type |-> 3]>>, <<>>}

ResolveTrainSpecs == {<<"59">>, <<"174">>, <<"59", " ", "monday">>, <<"99">>}

\* today_feed.trips[today_feed.trips.trip_id == my_trip_id] as a frame of its own
ResolveFrames == {<<>>, <<Trip59>>, <<Trip59, Trip59>>, <<Trip174, Trip59, Trip174>>}

InitResolve ==
    /\ NoFill
    /\ pc = "trip_from_train_spec_local"
    /\ fin \in {[feed |-> [MkFeed("no", FALSE, FALSE) EXCEPT !.trips = t, !.routes = r],
                 train_spec |-> ts, my_trips |-> f] :
                   t \in ResolveTrips, r \in ResolveRoutes, ts \in ResolveTrainSpecs,
                   f \in ResolveFrames}
    /\ fout = <<>>

Resolve ==
    /\ pc = "trip_from_train_spec_local"
    /\ fout' = [trip |-> trip_from_train_spec_local(fin.feed, fin.train_spec),
                route |-> route_from_train_spec_local(fin.feed, fin.train_spec),
                one_row |-> raise_error_if_not_one_row(fin.my_trips)]
    /\ pc' = "done"
    /\ UNCHANGED <<assets, csv, column_options, aux, feed, args, x, y, tt, styler_t,
                   writes, locals, result, history, fin>>

NextResolve == Resolve

SpecResolve == InitResolve /\ [][NextResolve]_vars

-----------------------------------------------------------------------------
(* Properties of the train spec resolver (under SpecResolve)                *)

Resolved == pc = "done"

\* the trips rows that carry the trip id the lookup gives for the train spec
ResolvedRows ==
    SelectSeq(fin.feed.trips,
              LAMBDA t : t.trip_id = train_spec_to_trip_id(fin.feed)[fin.train_spec])

\* C12: resolving a train spec fails with NoTripError when the filtered trips
\* frame has no row and with TwoTripsError when it has more than one, and
\* gives the single row otherwise; the route of the trip fails with GTFSError
\* when no routes row has the trip's route_id
C12_TripResolution ==
    Resolved =>
        /\ Len(fin.my_trips) = 0 => fout.one_row = "NoTripError"
        /\ Len(fin.my_trips) > 1 => fout.one_row = "TwoTripsError"
        /\ Len(fin.my_trips) = 1 => fout.one_row = "none"
        /\ fin.train_spec \in DOMAIN train_spec_to_trip_id(fin.feed) =>
              /\ Len(ResolvedRows) = 0 => fout.trip.err = "NoTripError"
              /\ Len(ResolvedRows) > 1 => fout.trip.err = "TwoTripsError"
              /\ Len(ResolvedRows) = 1 => fout.trip = Ok(ResolvedRows[1])
              /\ fout.trip.err # "none" => fout.route.err = fout.trip.err
              /\ fout.trip.err = "none" =>
                    IF \E i \in 1..Len(fin.feed.routes) :
                           fin.feed.routes[i].route_id = fout.trip.val.route_id
                    THEN /\ fout.route.err = "none"
                         /\ fout.route.val.route_id = fout.trip.val.route_id
                    ELSE fout.route.err = "GTFSError"

C12_Witness ==
    /\ Resolved
    /\ fin.train_spec = <<"59">>
    /\ Len(fin.my_trips) > 1 /\ fout.one_row = "TwoTripsError"
    /\ fout.trip.err = "TwoTripsError"

C12_WitnessRoute ==
    /\ Resolved
    /\ fout.trip.err = "none" /\ fout.route.err = "GTFSError"

-----------------------------------------------------------------------------
(* Properties of the timepoint lookup in a fill (under Spec)                *)

\* get_timepoint_from_trip_id on the feed of the fill: None for no row, the
\* row for one row, TwoStopsError for more
TimepointLookup ==
    \A trip_id \in {"T59", "T174"} : \A stop_id \in {"A", "B", "C"} :
        LET rows == SelectSeq(feed.stop_times,
                              LAMBDA r : r.trip_id = trip_id /\ r.stop_id = stop_id)
        IN get_timepoint_from_trip_id(feed, trip_id, stop_id) =
              IF Len(rows) = 0 THEN Ok(NoTimepoint)
              ELSE IF Len(rows) = 1 THEN Ok(rows[1])
              ELSE Raise("TwoStopsError")

\* train 59 stops twice at A, and the column key names train 59 with trains
\* that all run
Stops59TwiceAtA ==
    /\ Cardinality(Rows59A) > 1
    /\ ColumnKey \in {<<"59">>, <<"59", "/", "174">>, <<"59", " ", "noheader", "/", "174">>}

\* the cell of station A in the train column as the spec had it at the call
EntryCellA ==
    history.entry_csv[CHOOSE r \in 1..Len(history.entry_csv) :
                          history.entry_csv[r][1] = <<"A">>][2]

\* the cell of station A is a timed cell in which train 59 is checked first
Checks59AtA ==
    EntryCellA \in {<<>>, <<"last">>, <<"59", " ", "last">>, <<"59", " ", "first">>,
                    <<"59", " ", "two_row">>, <<"59", " ", "blank">>,
                    <<"59", " ", "first", " ", "two_row">>}

C14_WeekdayEntryPreferred ==
    (/\ Resolved
     /\ fin.train_spec \in DOMAIN make_tsn_and_day_to_trip_id_dict(fin.feed)
     /\ fin.train_spec \in DOMAIN make_tsn_to_trip_id_dict(fin.feed))
    => /\ train_spec_to_trip_id(fin.feed)[fin.train_spec]
            = make_tsn_and_day_to_trip_id_dict(fin.feed)[fin.train_spec]
       /\ fout.trip.err = "none"
       /\ fout.trip.val.trip_id = make_tsn_and_day_to_trip_id_dict(fin.feed)[fin.train_spec]

\* what the merge does: the entry of the plain map wins
C14_PlainEntryWins ==
    (/\ Resolved
     /\ fin.train_spec \in DOMAIN make_tsn_to_trip_id_dict(fin.feed))
    => train_spec_to_trip_id(fin.feed)[fin.train_spec]
          = make_tsn_to_trip_id_dict(fin.feed)[fin.train_spec]

-----------------------------------------------------------------------------
(* The column labels on their own: fin holds header_replacement_list, fout  *)
(* the labels of the two grids and the labels write_csv_file writes         *)

MaxColumns == 3

\* header texts: blank (a noheader column), a keyword column, a train column
\* in plaintext and in HTML, and a key with "-->" in it
HeaderTexts == {<<>>, <<"Station">>, <<"59">>, <<"59", " ", "-->", " ", "174">>,
                <<"<small>", "Train #", "</small>", "<br>", "<strong>", "59", "</strong>">>}

InitHeaders ==
    /\ NoFill
    /\ pc = "unique_header_replacement_list"
    /\ fin \in UNION {[1..n -> HeaderTexts] : n \in 0..MaxColumns}
    /\ fout = <<>>

UniqueHeaders ==
    /\ pc = "unique_header_replacement_list"
    /\ \E labels \in {unique_header_replacement_list(fin)} :
          fout' = [tt_columns |-> labels, styler_t_columns |-> labels,
                   csv_columns |-> non_unique_header_replacement_list(labels)]
    /\ pc' = "done"
    /\ UNCHANGED <<assets, csv, column_options, aux, feed, args, x, y, tt, styler_t,
                   writes, locals, result, history, fin>>

NextHeaders == UniqueHeaders

SpecHeaders == InitHeaders /\ [][NextHeaders]_vars

\* C15: the column labels of the content grid are pairwise distinct, also for
\* equal header texts; the label of column i is the header text behind a marker
\* with i in it; the style grid has the same labels; and taking the marker off
\* as write_csv_file does gives back the header text of every column
C15_UniqueHeaders ==
    pc = "done" =>
        /\ Len(fout.tt_columns) = Len(fin)
        /\ \A i, j \in 1..Len(fin) : i # j => fout.tt_columns[i] # fout.tt_columns[j]
        /\ \A i \in 1..Len(fin) :
               /\ contains(SubSeq(fout.tt_columns[i], 1, Len(fout.tt_columns[i]) - Len(fin[i])),
                           ToString(i - 1))
               /\ SubSeq(fout.tt_columns[i],
                         Len(fout.tt_columns[i]) - Len(fin[i]) + 1,
                         Len(fout.tt_columns[i])) = fin[i]
        /\ fout.styler_t_columns = fout.tt_columns
        /\ fout.csv_columns = fin

\* two columns with the same header text, one of them with "-->" in it
C15_Witness ==
    /\ pc = "done"
    /\ Len(fin) = 3
    /\ fin[1] = fin[3] /\ fin[1] = <<"59", " ", "-->", " ", "174">>
    /\ fout.tt_columns[1] # fout.tt_columns[3]
    /\ fout.csv_columns[3] = fin[3]

-----------------------------------------------------------------------------
(* timetable.py: copy_supporting_files_to_output_dir, called once for each  *)
(* timetable of a run by produce_timetable                                  *)

MaxCopyCalls == 3

\* the directory of the module, where the icons and fonts are copied from
source_dir == <<"timetable_kit">>

\* output_dirname as the caller writes it
OutputDirnames == {<<"out">>, <<"out", "/">>, <<".", "/", "out">>, <<"pdf">>,
                   <<"timetable_kit">>}

\* str(Path(output_dirname)): a leading "./" and a trailing "/" are dropped
path_str(output_dirname) ==
    Let(IF Len(output_dirname) > 2 /\ SubSeq(output_dirname, 1, 2) = <<".", "/">>
        THEN SubSeq(output_dirname, 3, Len(output_dirname)) ELSE output_dirname,
        LAMBDA d : IF Len(d) > 1 /\ d[Len(d)] = "/" THEN SubSeq(d, 1, Len(d) - 1) ELSE d)

icon_filenames(for_rpa) ==
    {"accessible.svg", "inaccessible-ncn.svg", "baggage-ncn.svg"}
    \union (IF for_rpa THEN {"rpa-logo.svg"} ELSE {})

font_filenames == {"SpartanTT/SpartanTT-Bold.ttf", "SpartanTT/SpartanTT-Medium.ttf"}

\* every directory counts as prepared, whatever asset set it was prepared with
already_prepared_any(output_dir, for_rpa, dirs, dirs_for_rpa) ==
    contains(dirs_for_rpa, output_dir) \/ contains(dirs, output_dir)

\* the two early returns of the cache (lines 1015-1018)
already_prepared(output_dir, for_rpa, dirs, dirs_for_rpa) ==
    contains(dirs_for_rpa, output_dir) \/ (~for_rpa /\ contains(dirs, output_dir))

\* one call; copy2 may raise (a file that cannot be written), and then the icons
\* copied so far stay and the directory is not recorded
copy_supporting_files_to_output_dir(output_dirname, for_rpa, copy_ok) ==
    \E output_dir \in {path_str(output_dirname)} :
        IF already_prepared(output_dir, for_rpa, prepared_output_dirs,
                            prepared_output_dirs_for_rpa)
           \/ output_dir = source_dir
        THEN /\ copy_log' = Append(copy_log, [output_dir |-> output_dir, for_rpa |-> for_rpa,
                                              files |-> {}, completed |-> FALSE])
             /\ UNCHANGED <<prepared_output_dirs, prepared_output_dirs_for_rpa>>
        ELSE IF ~copy_ok
        THEN /\ copy_log' = Append(copy_log, [output_dir |-> output_dir, for_rpa |-> for_rpa,
                                              files |-> {"accessible.svg"},
                                              completed |-> FALSE])
             /\ UNCHANGED <<prepared_output_dirs, prepared_output_dirs_for_rpa>>
        ELSE /\ copy_log' = Append(copy_log, [output_dir |-> output_dir, for_rpa |-> for_rpa,
                                              files |-> icon_filenames(for_rpa)
                                                        \union font_filenames,
                                              completed |-> TRUE])
             /\ prepared_output_dirs_for_rpa' =
                    IF for_rpa THEN Append(prepared_output_dirs_for_rpa, output_dir)
                    ELSE prepared_output_dirs_for_rpa
             /\ prepared_output_dirs' = Append(prepared_output_dirs, output_dir)

InitAssets ==
    /\ NoFill
    /\ pc = "produce_timetable"
    /\ fin = <<>> /\ fout = <<>>

CopySupportingFiles ==
    /\ pc = "produce_timetable"
    /\ Len(copy_log) < MaxCopyCalls
    /\ \E output_dirname \in OutputDirnames, for_rpa \in BOOLEAN, copy_ok \in BOOLEAN :
          copy_supporting_files_to_output_dir(output_dirname, for_rpa, copy_ok)
    /\ UNCHANGED <<csv, column_options, aux, feed, args, pc, x, y, tt, styler_t, writes,
                   locals, result, history, fin, fout>>

NextAssets == CopySupportingFiles

SpecAssets == InitAssets /\ [][NextAssets]_vars

\* C16: a call copies files only if no earlier completed copy for its directory
\* covers the request; after a completed copy with for_rpa every later call for
\* the directory copies nothing; after a completed copy without for_rpa every
\* later call without for_rpa copies nothing, while a later call with for_rpa
\* still copies (unless that is the module directory or an rpa copy came in
\* between); and prepared_output_dirs_for_rpa is a subset of prepared_output_dirs
C16_AssetCache ==
    /\ \A i, j \in 1..Len(copy_log) :
          (i < j /\ copy_log[i].completed /\ copy_log[i].output_dir = copy_log[j].output_dir)
          => /\ copy_log[i].for_rpa => copy_log[j].files = {}
             /\ (~copy_log[i].for_rpa /\ ~copy_log[j].for_rpa) => copy_log[j].files = {}
             /\ (/\ ~copy_log[i].for_rpa /\ copy_log[j].for_rpa
                 /\ \A k \in 1..(j - 1) :
                        ~(copy_log[k].completed /\ copy_log[k].for_rpa
                          /\ copy_log[k].output_dir = copy_log[j].output_dir))
                => copy_log[j].files # {}
    /\ \A j \in 1..Len(copy_log) :
          copy_log[j].completed => "rpa-logo.svg" \in copy_log[j].files <=> copy_log[j].for_rpa
    /\ \A n \in 1..Len(prepared_output_dirs_for_rpa) :
          contains(prepared_output_dirs, prepared_output_dirs_for_rpa[n])

\* a copy without for_rpa, then one with for_rpa that copies again, then a call
\* that copies nothing, all for the same directory written in three ways
C16_Witness ==
    /\ Len(copy_log) = 3
    /\ \A n \in 1..3 : copy_log[n].output_dir = <<"out">>
    /\ copy_log[1].completed /\ ~copy_log[1].for_rpa
    /\ copy_log[2].completed /\ copy_log[2].for_rpa
    /\ copy_log[3].files = {}
    /\ prepared_output_dirs = <<<<"out">>, <<"out">>>>
    /\ prepared_output_dirs_for_rpa = <<<<"out">>>>

-----------------------------------------------------------------------------
(* Properties of the markers of timepoint_str (under SpecTimepoint)         *)

\* the marker of the stop: '*' for no pickup and no drop-off, 'F' for a code 2
\* or 3, none otherwise
StarOrFlag ==
    IF fin.timepoint.drop_off_type = 1 /\ fin.timepoint.pickup_type = 1 THEN "*"
    ELSE IF fin.timepoint.drop_off_type \in {2, 3} \/ fin.timepoint.pickup_type \in {2, 3}
    THEN "F"
    ELSE "none"

\* two rows, a dwell, neither first nor last stop, the markers switched on
TwoRowsWithDwell ==
    /\ Rendered /\ fin.f.two_row /\ ~fin.f.is_first_stop /\ ~fin.f.is_last_stop
    /\ ~fin.f.no_rd
    /\ fin.timepoint.arrival_time # NaT /\ fin.timepoint.departure_time # NaT
    /\ fin.timepoint.arrival_time # fin.timepoint.departure_time

\* C17 as stated: in two-row mode, with a dwell and neither first nor last
\* stop, the '*' or 'F' marker is on the first printed line and not on the
\* second, with reverse and without
C17_StarFlagOnFirstLineOnly ==
    (TwoRowsWithDwell /\ StarOrFlag # "none")
    => /\ Len(OutLines) = 2
       /\ contains(OutLines[1], StarOrFlag)
       /\ ~contains(OutLines[2], StarOrFlag)

\* what the code does: without reverse the marker is on both lines, with
\* reverse on neither
C17_StarFlagOnBothOrNone ==
    (TwoRowsWithDwell /\ StarOrFlag # "none")
    => /\ Len(OutLines) = 2
       /\ contains(OutLines[1], StarOrFlag) <=> ~fin.f.reverse
       /\ contains(OutLines[2], StarOrFlag) <=> ~fin.f.reverse

-----------------------------------------------------------------------------
(* get_rd_str on its own: fin holds the timepoint and the keyword           *)
(* arguments, fout the marker text                                          *)

\* the GTFS pickup and drop-off codes
GtfsCodes == 0..3

\* the "timepoint" column of stop_times: not in the feed, 0 (times are
\* approximate) or 1 (times are exact)
TimepointColumn == {"absent", "0", "1"}

RdTimepoints ==
    {[StopTime("T59", "A", 600, 960, d, p) EXCEPT !.timepoint = tp] :
         d \in GtfsCodes, p \in GtfsCodes, tp \in TimepointColumn}

InitRd ==
    /\ NoFill
    /\ pc = "get_rd_str"
    /\ fin \in [timepoint : RdTimepoints, doing_html : BOOLEAN,
                is_first_stop : BOOLEAN, is_last_stop : BOOLEAN,
                is_second_line : BOOLEAN, is_arrival_line : BOOLEAN,
                is_departure_line : BOOLEAN]
    /\ fout = <<>>

GetRd ==
    /\ pc = "get_rd_str"
    /\ fout' = get_rd_str(fin.timepoint, fin.doing_html, fin.is_first_stop,
                          fin.is_last_stop, fin.is_second_line,
                          fin.is_arrival_line, fin.is_departure_line)
    /\ pc' = "done"
    /\ UNCHANGED <<assets, csv, column_options, aux, feed, args, x, y, tt, styler_t,
                   writes, locals, result, history, fin>>

NextRd == GetRd

SpecRd == InitRd /\ [][NextRd]_vars

-----------------------------------------------------------------------------
(* Properties of get_rd_str (under SpecRd)                                  *)

RdDone == pc = "done"

\* the marker is a single blank: bare in plain text, in the span in HTML
RdBlank ==
    IF fin.doing_html THEN fout = <<"<span class=box-rd>", " ", "</span>">>
    ELSE fout = <<" ">>

\* 'R' only for drop_off_type=1, pickup_type=0, not the first stop, not on the
\* arrival line; 'D' only for pickup_type=1, drop_off_type=0, not the last
\* stop, not on the departure line
RdLettersOnlyWhereAllowed ==
    /\ contains(fout, "R")
       => /\ fin.timepoint.drop_off_type = 1 /\ fin.timepoint.pickup_type = 0
          /\ ~fin.is_first_stop /\ ~fin.is_arrival_line
    /\ contains(fout, "D")
       => /\ fin.timepoint.pickup_type = 1 /\ fin.timepoint.drop_off_type = 0
          /\ ~fin.is_last_stop /\ ~fin.is_departure_line

\* in HTML the text is the box-rd span around either a blank or a marker in
\* bold; in plain text it is one character
RdHtmlShape ==
    IF fin.doing_html
    THEN /\ Len(fout) \in {3, 5}
         /\ fout[1] = "<span class=box-rd>" /\ fout[Len(fout)] = "</span>"
         /\ Len(fout) = 3 => fout[2] = " "
         /\ Len(fout) = 5 => fout[2] = "<b>" /\ fout[3] # " " /\ fout[4] = "</b>"
    ELSE Len(fout) = 1

BothCodesZero == fin.timepoint.drop_off_type = 0 /\ fin.timepoint.pickup_type = 0

\* the stop's times are marked approximate in the feed and the line is not
\* the arrival line
MayLeaveEarly == fin.timepoint.timepoint = "0" /\ ~fin.is_arrival_line

C18_WitnessBlank ==
    RdDone /\ BothCodesZero /\ fin.timepoint.timepoint = "1" /\ RdBlank

-----------------------------------------------------------------------------
(* Properties of the timed cells of fill_tt_spec (under Spec)               *)

\* the column key names trains that all run
ColumnAllRun ==
    ColumnKey \in {<<"59">>, <<"59", "/", "174">>, <<"59", " ", "noheader", "/", "174">>}

\* the trains of the column, in column order and without noheader
ColumnTrains == IF ColumnKey = <<"59">> THEN <<"59">> ELSE <<"59", "174">>

\* the train the cell code of station A names, if it names one of the column
OverrideTrainA ==
    IF EntryCellA \in {<<"59", " ", "last">>, <<"59", " ", "first">>,
                       <<"59", " ", "two_row">>, <<"59", " ", "blank">>,
                       <<"59", " ", "first", " ", "two_row">>}
    THEN "59"
    ELSE IF EntryCellA = <<"174">> /\ contains(ColumnTrains, "174") THEN "174"
    ELSE "none"

BlankOverrideA == EntryCellA = <<"59", " ", "blank">>

\* the cell of station A is a timed cell: empty, or a cell code (the text
\* "blank" alone is a cell of its own kind)
TimedCellA ==
    \/ EntryCellA \in {<<>>, <<"last">>}
    \/ OverrideTrainA # "none"

CheckedTrainsA == IF OverrideTrainA # "none" THEN <<OverrideTrainA>> ELSE ColumnTrains

RowsAtA(train) == IF train = "59" THEN Rows59A ELSE Row174A

\* the position in CheckedTrainsA of the first train that stops at A, 0 for none
FirstStoppingA ==
    IF \E i \in 1..Len(CheckedTrainsA) : RowsAtA(CheckedTrainsA[i]) # {}
    THEN CHOOSE i \in 1..Len(CheckedTrainsA) :
             /\ RowsAtA(CheckedTrainsA[i]) # {}
             /\ \A j \in 1..(i - 1) : RowsAtA(CheckedTrainsA[j]) = {}
    ELSE 0

HasTimeAtA(train) ==
    \E n \in RowsAtA(train) :
        \/ contains(ContentA, TimeText(feed.stop_times[n].arrival_time))
        \/ contains(ContentA, TimeText(feed.stop_times[n].departure_time))

\* the cell of A is the timepoint of the train: its style is the time-cell tag
\* with the colour class of the train, and its content has a time of the
\* train and of no other train (the cell "59 first two_row" is the departure
\* line alone, which has no time for a stop without pickup)
ShowsTrainAtA(train) ==
    /\ StyleA = <<" ", "time-cell", " ", "color[", train, "]">>
    /\ EntryCellA # <<"59", " ", "first", " ", "two_row">> => HasTimeAtA(train)
    /\ \A other \in {"59", "174"} \ {train} : ~HasTimeAtA(other)

\* C19 as stated: the cell shows the first train of the column that stops at
\* the station, or the train the cell code names and no other; where no
\* checked train stops, or the cell code has blank, the cell is empty and its
\* style has the blank-cell tag and a train colour class, in single-train and
\* in shared columns
C19_FirstStoppingOrColouredBlank ==
    (Returned /\ ColumnAllRun /\ TimedCellA)
    => IF FirstStoppingA = 0 \/ BlankOverrideA
       THEN /\ ContentA = <<>>
            /\ contains(StyleA, "blank-cell") /\ contains(StyleA, "color[")
       ELSE ShowsTrainAtA(CheckedTrainsA[FirstStoppingA])

\* C19, amended: as stated, except that the empty cell has a train colour
\* class only when exactly one train was checked (a single-train column, or a
\* cell code that names a train); where several trains were checked its style
\* is the blank-cell tag alone
C19_ColouredBlankForOneTrain ==
    (Returned /\ ColumnAllRun /\ TimedCellA)
    => IF FirstStoppingA = 0 \/ BlankOverrideA
       THEN /\ ContentA = <<>>
            /\ StyleA = IF Len(CheckedTrainsA) = 1
                        THEN <<" ", "blank-cell", " ", "color[", CheckedTrainsA[1], "]">>
                        ELSE <<" ", "blank-cell">>
       ELSE ShowsTrainAtA(CheckedTrainsA[FirstStoppingA])

\* in the shared column train 59 does not stop at A and train 174 does: the
\* cell shows train 174
C19_Witness ==
    /\ Returned /\ ColumnKey = <<"59", "/", "174">> /\ EntryCellA = <<>>
    /\ Rows59A = {} /\ Row174A # {}
    /\ ShowsTrainAtA("174")

\* an empty cell with a colour class: "59 blank" where train 59 stops
C19_WitnessBlank ==
    /\ Returned /\ ColumnKey = <<"59", "/", "174">> /\ EntryCellA = <<"59", " ", "blank">>
    /\ Rows59A # {}
    /\ StyleA = <<" ", "blank-cell", " ", "color[", "59", "]">>

-----------------------------------------------------------------------------
(* Properties of the call of timepoint_str in a timed cell (under Spec)     *)

\* the station and the keyword arguments of the latest call of timepoint_str
LastCall == locals.timepoint_str_call

FormatterCalled == LastCall.station_code # <<>>

\* the cell of the station of the latest call, as the spec had it at the call
\* of fill_tt_spec
EntryCellOf(station_code) ==
    history.entry_csv[CHOOSE r \in 1..Len(history.entry_csv) :
                          history.entry_csv[r][1] = station_code][2]

\* the words of the cell code
CodeHas(cell, word) == \E i \in 1..Len(cell) : cell[i] = word

\* what the station's classifier says: never, always, the major stations, or
\* the dwell map of the call
ClassifierValue(station_code) ==
    CASE args.is_ardp_station = "False" -> FALSE
      [] args.is_ardp_station = "True" -> TRUE
      [] args.is_ardp_station = "major" -> station_code \in feed.major_stations
      [] args.is_ardp_station = "dwell" -> locals.stations_max_dwell_map[station_code]

\* C20: in the call of timepoint_str for a timed cell, is_first_stop and
\* is_last_stop are true only where the cell code says first or last, whatever
\* the feed says; two_row is the classifier value of the station for a cell
\* without a code, and for a cell with a code it is true if the code has
\* two_row, else false if the code has first or last, else the classifier value
C20_FlagsFromCellCodes ==
    FormatterCalled
    => LET cell == EntryCellOf(LastCall.station_code)
           kwargs == LastCall.kwargs
       IN /\ kwargs.is_first_stop = CodeHas(cell, "first")
          /\ kwargs.is_last_stop = CodeHas(cell, "last")
          /\ kwargs.two_row =
                IF cell = <<>> THEN ClassifierValue(LastCall.station_code)
                ELSE IF CodeHas(cell, "two_row") THEN TRUE
                ELSE IF CodeHas(cell, "first") \/ CodeHas(cell, "last") THEN FALSE
                ELSE ClassifierValue(LastCall.station_code)

\* the cell "59 first two_row" at a station that is never a two-row station:
\* first stop, and two rows all the same
C20_Witness ==
    /\ FormatterCalled /\ LastCall.station_code = <<"A">>
    /\ EntryCellOf(<<"A">>) = <<"59", " ", "first", " ", "two_row">>
    /\ args.is_ardp_station = "False"
    /\ LastCall.kwargs.is_first_stop /\ LastCall.kwargs.two_row

\* train 59 ends its run nowhere in the spec, the cell has no code, and the
\* dwell map makes the station a two-row station
C20_WitnessNoCode ==
    /\ FormatterCalled /\ LastCall.station_code = <<"A">>
    /\ EntryCellOf(<<"A">>) = <<>>
    /\ args.is_ardp_station = "dwell"
    /\ LastCall.kwargs.two_row /\ ~LastCall.kwargs.is_last_stop

\* "59 last" at a station the classifier makes a two-row station: one row
C20_WitnessLast ==
    /\ FormatterCalled /\ LastCall.station_code = <<"A">>
    /\ EntryCellOf(<<"A">>) = <<"59", " ", "last">>
    /\ args.is_ardp_station = "True"
    /\ LastCall.kwargs.is_last_stop /\ ~LastCall.kwargs.two_row

-----------------------------------------------------------------------------
(* Properties of the slots of a one-row cell (under SpecTimepoint)          *)

OneRow == Rendered /\ ~fin.f.two_row

\* the texts a slot can hold, in HTML and in plain text
MarkerSlotTexts ==
    IF fin.f.doing_html
    THEN {<<"<span class=box-rd>", " ", "</span>">>}
         \cup {<<"<span class=box-rd>", "<b>", m, "</b>", "</span>">> :
                   m \in {"R", "D", "F", "*", "L"}}
    ELSE {<<m>> : m \in {"R", "D", "F", "*", "L", " "}}

BaggageSlotTexts ==
    IF fin.f.doing_html
    THEN {<<"<span class=box-baggage>", "</span>">>,
          <<"<span class=box-baggage>", "[baggage]", "</span>">>}
    ELSE {<<" ">>, <<"[baggage]">>}

BusSlotTexts ==
    IF fin.f.doing_html
    THEN {<<"<span class=box-bus>", "</span>">>, <<"<span class=box-bus>", "[bus]", "</span>">>}
    ELSE {<<" ">>, <<"[bus]">>}

\* the Ar / Dp label or its spacer, the time and the day string of the cell
LabelTexts == {<<>>, <<"   ">>, ar_str(fin.f), dp_str(fin.f)}

TimeAndDayTexts ==
    {time_str(t, fin.f.doing_html) \o daystring_str(t, fin.f) :
         t \in {fin.timepoint.arrival_time, fin.timepoint.departure_time}}

\* the output is the label, the marker, the time with its days, the baggage
\* slot and the bus slot, taken from the given sets
OneRowSlots(markers, baggage, buses) ==
    \E l \in LabelTexts, m \in markers, t \in TimeAndDayTexts, b \in baggage, u \in buses :
        fout = l \o m \o t \o b \o u

\* C21 as stated: a one-row cell always has a marker slot, a baggage slot and a
\* bus slot, each filled or blank
C21_SlotsAlwaysEmitted ==
    OneRow => OneRowSlots(MarkerSlotTexts, BaggageSlotTexts, BusSlotTexts)

\* C21, amended: a one-row cell has a marker slot, filled or blank, unless the
\* column has the no-rd option, and a baggage slot and a bus slot, filled or
\* blank, where the column uses that icon; a slot that is switched off for the
\* column is left out of every cell of it
C21_SlotsOfTheColumn ==
    OneRow => OneRowSlots(IF fin.f.no_rd THEN {<<>>} ELSE MarkerSlotTexts,
                          IF fin.f.use_baggage_icon THEN BaggageSlotTexts ELSE {<<>>},
                          IF fin.f.use_bus_icon THEN BusSlotTexts ELSE {<<>>})

\* a stop with no marker, no baggage and no bus in a column with all slots on:
\* three blank slots around the time
C21_Witness ==
    /\ OneRow /\ ~fin.f.doing_html /\ ~fin.f.no_rd /\ ~fin.f.use_daystring
    /\ fin.f.use_baggage_icon /\ ~fin.f.has_baggage /\ fin.f.use_bus_icon /\ ~fin.f.is_bus
    /\ ~fin.f.use_ar_dp_str
    /\ fin.timepoint.departure_time = 600
    /\ fout = <<" ", TimeText(600), " ", " ">>

-----------------------------------------------------------------------------
(* Properties of the two lines of a two-row cell (under SpecTimepoint)      *)

TwoRows == Rendered /\ fin.f.two_row

\* how many line breaks the output has
LineBreaks == Cardinality({i \in 1..Len(fout) : fout[i] = linebreak(fin.f)[1]})

\* the line is the arrival line: it has the Ar label where labels are asked
\* for, and no departure time that differs from the arrival time
IsArrivalLine(line) ==
    /\ (fin.f.use_ar_dp_str /\ line # <<>>) => (contains(line, "Ar") \/ contains(line, "Ar "))
    /\ fin.timepoint.arrival_time # fin.timepoint.departure_time
       => ~contains(line, TimeText(fin.timepoint.departure_time))

IsDepartureLine(line) ==
    /\ (fin.f.use_ar_dp_str /\ line # <<>>) => (contains(line, "Dp") \/ contains(line, "Dp "))
    /\ fin.timepoint.arrival_time # fin.timepoint.departure_time
       => ~contains(line, TimeText(fin.timepoint.arrival_time))

\* C22: in two-row mode the output is two lines joined by one line break, the
\* arrival line first and the departure line second, the other way round with
\* reverse; the arrival line has no time when is_first_stop is set or the stop
\* is receive-only, the departure line has no time when is_last_stop is set or
\* the stop is discharge-only
C22_TwoLines ==
    TwoRows
    => /\ LineBreaks = 1 /\ Len(OutLines) = 2
       /\ IsArrivalLine(OutLines[IF fin.f.reverse THEN 2 ELSE 1])
       /\ IsDepartureLine(OutLines[IF fin.f.reverse THEN 1 ELSE 2])
       /\ (fin.f.is_first_stop \/ ReceiveCodes) => ~shows_time(ArrivalLine)
       /\ (fin.f.is_last_stop \/ DischargeCodes) => ~shows_time(DepartureLine)

\* with reverse the departure line, with its time, is the first line, and the
\* arrival line the second
C22_Witness ==
    /\ TwoRows /\ fin.f.reverse /\ fin.f.use_ar_dp_str
    /\ fin.timepoint.arrival_time = 600 /\ fin.timepoint.departure_time = 960
    /\ contains(OutLines[1], TimeText(960)) /\ contains(OutLines[2], TimeText(600))

\* a receive-only stop: the arrival line is there and has no time
C22_WitnessReceiveOnly ==
    /\ TwoRows /\ ~fin.f.reverse /\ ReceiveCodes /\ ~fin.f.is_first_stop /\ ~fin.f.is_last_stop
    /\ fin.timepoint.arrival_time = 600 /\ fin.timepoint.departure_time = 960
    /\ ~shows_time(OutLines[1]) /\ contains(OutLines[2], TimeText(960))

-----------------------------------------------------------------------------
(* One pass of the row loop of fill_tt_spec on its own: fin holds a spec    *)
(* grid with the cell (1, 1) to fill, the feed and doing_html; fout is the  *)
(* content and the style assigned to the cell, or the exception             *)

CellRowKeys == {<<>>, <<"route-name">>, <<"updown">>, <<"days">>, <<"origin">>,
                <<"Destination">>, <<"A">>}

CellColumnKeys == {<<"59">>, <<"59", "/", "174">>, <<"stations">>, <<"access">>}

CellCellTexts == {<<>>, <<"To", " ", "Chicago">>, <<"59", " ", "blank">>,
                  <<"59", " ", "last">>, <<"last">>, <<"blank">>, <<"99", " ", "blank">>,
                  <<"174">>}

CellFeeds == {MkFeed("long", FALSE, TRUE), MkFeed("no", TRUE, FALSE)}

\* days rows: the train columns, shared and with noheader on the first or the
\* second train, and cells that are blank or name a station of the feed
DaysRowKeys == {<<"days">>, <<"days-of-week">>}

DaysColumnKeys == {<<"59">>, <<"59", "/", "174">>, <<"174", "/", "59">>,
                   <<"59", " ", "noheader", "/", "174">>,
                   <<"174", "/", "59", " ", "noheader">>, <<"stations">>}

DaysCellTexts == {<<>>, <<"A">>, <<"B">>, <<"C">>}

\* the header row, the row of the cell and a station row B
CellGrid(row_key, column_key, cell) ==
    <<<<<<>>, column_key>>, <<row_key, cell>>, <<<<"B">>, <<>>>>>>

CellAux == [dwell_secs_cutoff |-> DwellCutoffDefault, use_bus_icon_in_cells |-> FALSE,
            train_numbers_side_by_side |-> FALSE]

InitCell ==
    /\ NoFill
    /\ pc = "row"
    /\ fin \in {[grid |-> CellGrid(r, c, t), feed |-> fd,
                 args |-> [doing_html |-> h, is_ardp_station |-> "False"]] :
                   r \in CellRowKeys, c \in CellColumnKeys, t \in CellCellTexts,
                   fd \in CellFeeds, h \in BOOLEAN}
           \cup {[grid |-> CellGrid(r, c, t), feed |-> fd,
                  args |-> [doing_html |-> h, is_ardp_station |-> "False"]] :
                    r \in DaysRowKeys, c \in DaysColumnKeys, t \in DaysCellTexts,
                    fd \in CellFeeds, h \in BOOLEAN}
    /\ fout = <<>>

\* the column prologue of column 1 and the row loop body for the cell (1, 1)
FillCell ==
    /\ pc = "row"
    /\ \E pro \in {column_prologue(fin.feed, CellAux, fin.args, fin.grid, <<<<>>, <<>>>>, 1)} :
          fout' = IF pro.err # "none" THEN Raise(pro.err)
                  ELSE fill_cell(fin.feed, fin.args, fin.grid, <<<<>>, <<>>>>, pro.val,
                                 <<>>, 1, 1)
    /\ pc' = "done"
    /\ UNCHANGED <<assets, csv, column_options, aux, feed, args, x, y, tt, styler_t,
                   writes, locals, result, history, fin>>

NextCell == FillCell

SpecCell == InitCell /\ [][NextCell]_vars

-----------------------------------------------------------------------------
(* Properties of the row classification (under SpecCell)                    *)

CellFilled == pc = "done" /\ fout.err = "none"

CellRowKey == lower(fin.grid[2][1])

\* the row of the cell is the row of station A
StationRow == fin.grid[2][1] = <<"A">>

CellColumnKey == fin.grid[1][2]

CellText == fin.grid[2][2]

KeywordColumn == CellColumnKey \in {<<"stations">>, <<"access">>}

\* the cell texts that are override codes in the column: a train of the
\* column with blank or last, the train 174 of the shared column, or last alone
RecognizedCode ==
    \/ CellText = <<"last">>
    \/ ~KeywordColumn /\ CellText \in {<<"59", " ", "blank">>, <<"59", " ", "last">>}
    \/ CellColumnKey = <<"59", "/", "174">> /\ CellText = <<"174">>

\* the cell text as the fill copies it: "blank" alone has become one space
CopiedText == IF CellText = <<"blank">> THEN <<" ">> ELSE CellText

HasTag(tag) == contains(fout.val.css, tag)

FreeTextCell == fout.val.text = CopiedText /\ fout.val.css = <<" ", "special-cell">>

C23_WitnessBlankKey ==
    /\ CellFilled /\ CellRowKey = <<>> /\ CellText = <<"59", " ", "blank">>
    /\ fout.val.css = <<" ", "blank-cell", " ", "color[", "59", "]">>

\* a cell with a code in the stations column is the station name
C23_WitnessKeywordColumn ==
    /\ CellFilled /\ StationRow /\ CellColumnKey = <<"stations">>
    /\ CellText = <<"last">> /\ HasTag("station-cell")

-----------------------------------------------------------------------------
(* Properties of the rows after augment_from_key_cell (under SpecAugment)   *)

\* the key cell is "stations of <train>" and the train is found
Expanded ==
    /\ Augmented /\ fout.err = "none"
    /\ startswith(fin.grid[1][1], <<"stations", " ", "of", " ">>)

\* the stations the train of the key cell serves, in stop order
ServedStations ==
    LET trip_id == IF contains(fin.grid[1][1], "174") THEN "T174" ELSE "T59"
        rows == SelectSeq(fin.feed.stop_times, LAMBDA r : r.trip_id = trip_id)
    IN [i \in 1..Len(rows) |-> <<rows[i].stop_id>>]

\* the rows of the grid that are not station rows: row 0 and the keyword rows
HeaderRowCount(grid) == Len(grid) - Len(get_stations_list(grid))

StationRowOf(station_code) == <<station_code, <<>>, <<>>>>

\* C24 as stated: after the expansion the grid is the header rows followed by
\* one row per served station and nothing else, so that it has as many data
\* rows as the train serves stations
C24_DataRowsReplaced ==
    Expanded
    => /\ Len(get_stations_list(fout.val)) = Len(ServedStations)
       /\ Len(fout.val) = HeaderRowCount(fin.grid) + Len(ServedStations)

\* C24, amended: the expansion keeps every row of the spec, data rows
\* included, blanks the key cell and appends one row per served station in
\* stop order; the number of data rows equals the number of served stations
\* only for a spec that had no data row
C24_StationRowsAppended ==
    Expanded
    => /\ Len(fout.val) = Len(fin.grid) + Len(ServedStations)
       /\ \A r \in 1..Len(fin.grid) :
              fout.val[r] = IF r = 1 THEN [fin.grid[1] EXCEPT ![1] = <<>>] ELSE fin.grid[r]
       /\ \A i \in 1..Len(ServedStations) :
              fout.val[Len(fin.grid) + i] = StationRowOf(ServedStations[i])
       /\ get_stations_list(fin.grid) = <<>>
            => Len(get_stations_list(fout.val)) = Len(ServedStations)

\* a spec with keyword rows only: three station rows after them
C24_Witness ==
    /\ Expanded /\ KeyCell59ABC
    /\ Len(fin.grid) = 3 /\ get_stations_list(fin.grid) = <<>>
    /\ Len(fout.val) = 6
    /\ fout.val[4] = StationRowOf(<<"A">>) /\ fout.val[6] = StationRowOf(<<"C">>)

\* a spec with a data row Z: the row stays in front of the three station rows
C24_WitnessDataRowKept ==
    /\ Expanded /\ KeyCell59ABC
    /\ get_stations_list(fin.grid) = <<<<"Z">>>>
    /\ get_stations_list(fout.val) = <<<<"Z">>, <<"A">>, <<"B">>, <<"C">>>>

-----------------------------------------------------------------------------
(* calculate_column_options on its own: fin.grid is spec.csv before the     *)
(* call, fout the pair (column_options, csv) after it or the exception      *)

OptionKeys == {<<>>, <<"column-options">>, <<"column_options">>, <<"Column-Options">>,
               <<"COLUMN_OPTIONS">>, <<" ", "column-options">>, <<"days">>, <<"A">>}

OptionTexts == {<<>>, <<"ardp">>, <<"ardp", " ", "long-days-box">>,
                <<" ", "no-rd", " ", " ", "ardp", " ">>}

\* the rows below row 1
OptionTails == {<<>>, <<<<<<"A">>, <<>>, <<>>>>>>,
                <<<<<<"A">>, <<>>, <<>>>>, <<<<"B">>, <<"59">>, <<>>>>>>,
                <<<<<<"B">>, <<>>, <<>>>>, <<<<"column-options">>, <<"ardp">>, <<>>>>>>}

OptionGrids ==
    {<<<<<<>>, <<"59">>>>>>, <<<<<<"column-options">>, <<"59">>, <<"stations">>>>>>}
    \cup {<<<<<<>>, <<"59">>, <<"stations">>>>, <<k, a, b>>>> \o t :
             k \in OptionKeys, a \in OptionTexts, b \in {<<>>, <<"ardp">>}, t \in OptionTails}

InitOptions ==
    /\ NoFill
    /\ pc = "calculate_column_options"
    /\ fin \in {[grid |-> g] : g \in OptionGrids}
    /\ fout = <<>>

CalculateColumnOptions ==
    /\ pc = "calculate_column_options"
    /\ fout' = calculate_column_options(fin.grid)
    /\ pc' = "done"
    /\ UNCHANGED <<assets, csv, column_options, aux, feed, args, x, y, tt, styler_t,
                   writes, locals, result, history, fin>>

NextOptions == CalculateColumnOptions

SpecOptions == InitOptions /\ [][NextOptions]_vars

-----------------------------------------------------------------------------
(* Properties of calculate_column_options (under SpecOptions)               *)

OptionsDone == pc = "done" /\ "grid" \in DOMAIN fin /\ Len(fin.grid[1]) > 0

\* cell (1,0) exists and is one of the two markers in some letter case
MarkerInRowOne ==
    /\ Len(fin.grid) >= 2
    /\ fin.grid[2][1] \in {<<"column-options">>, <<"column_options">>,
                           <<"Column-Options">>, <<"COLUMN_OPTIONS">>}

\* the list holds the non-blank pieces of the text, in order
TokensOf(list, text) ==
    /\ \A k \in 1..Len(list) : Len(list[k]) = 1 /\ list[k][1] # " "
    /\ [k \in 1..Len(list) |-> list[k][1]] = SelectSeq(text, LAMBDA c : c # " ")

\* the options are the tokens of row 1 and row 1 is gone from the grid
RowOneSeparated ==
    /\ fout.err = "none"
    /\ Len(fout.val.column_options) = Len(fin.grid[1])
    /\ \A i \in 1..Len(fin.grid[1]) : TokensOf(fout.val.column_options[i], fin.grid[2][i])
    /\ Len(fout.val.csv) = Len(fin.grid) - 1
    /\ fout.val.csv[1] = fin.grid[1]
    /\ \A r \in 2..Len(fout.val.csv) : fout.val.csv[r] = fin.grid[r + 1]

\* no options and the same grid
NothingSeparated ==
    /\ fout.err = "none"
    /\ fout.val.csv = fin.grid
    /\ fout.val.column_options = [i \in 1..Len(fin.grid[1]) |-> <<>>]

\* C25: calculate_column_options: when cell (1,0) is 'column-options' or
\* 'column_options' in any letter case the option lists are the
\* whitespace-split tokens of that row and the row is removed, the other rows
\* keeping order and content; otherwise the grid is unchanged and there is one
\* empty option list per column
C25_OptionsRowOrUnchanged ==
    OptionsDone => IF MarkerInRowOne THEN RowOneSeparated ELSE NothingSeparated

\* what the code does: the claim holds for a grid with a row 1, and a grid of
\* one row ends in an IndexError
C25_OptionsRowWhenRowOneExists ==
    OptionsDone =>
        IF Len(fin.grid) < 2 THEN fout.err = "IndexError"
        ELSE IF MarkerInRowOne THEN RowOneSeparated ELSE NothingSeparated

C25_WitnessSeparated ==
    /\ OptionsDone /\ MarkerInRowOne /\ RowOneSeparated
    /\ fin.grid[2][1] = <<"Column-Options">>
    /\ Len(fout.val.column_options[2]) = 2
    /\ Len(fin.grid) = 4

C25_WitnessOneRow == OptionsDone /\ Len(fin.grid) = 1 /\ fout.err = "IndexError"

-----------------------------------------------------------------------------
(* fill_tt_spec from its call to its return, for two specs side by side:    *)
(* fin holds the two grids, the feed and the arguments, fout what the two   *)
(* calls returned                                                           *)

\* the loops of fill_tt_spec (lines 897-1378) over the prepared grid: pro[xx]
\* is the prologue of column xx, cell[yy][xx] the pass for the cell (yy, xx),
\* both kept as tuples
fill_loops(fd, au, a, grid, opts, dwell_map) ==
    Let([xx \in 1..(Len(grid[1]) - 1) |-> column_prologue(fd, au, a, grid, opts, xx)] \o <<>>,
        LAMBDA pro :
    Let([yy \in 1..(Len(grid) - 1) |-> [xx \in 1..(Len(grid[1]) - 1) |->
            IF pro[xx].err # "none" THEN pro[xx]
            ELSE fill_cell(fd, a, grid, opts, pro[xx].val, dwell_map, xx, yy)] \o <<>>] \o <<>>,
        LAMBDA cell :
    Let({q \in (1..(Len(grid[1]) - 1)) \X (1..(Len(grid) - 1)) : cell[q[2]][q[1]].err # "none"},
        LAMBDA failed :
        IF failed # {}
        THEN Let(CHOOSE q \in failed : \A r \in failed :
                     q[1] < r[1] \/ (q[1] = r[1] /\ q[2] <= r[2]),
                 LAMBDA q : Raise(cell[q[2]][q[1]].err))
        ELSE Ok([status |-> "returned", error |-> "none",
                 timetable |-> [yy \in 1..(Len(grid) - 1) |-> [xx \in 1..(Len(grid[1]) - 1) |->
                                   cell[yy][xx].val.text]],
                 styler_table |-> [yy \in 1..(Len(grid) - 1) |-> [xx \in 1..(Len(grid[1]) - 1) |->
                                      cell[yy][xx].val.css]],
                 columns |-> unique_header_replacement_list(
                                 [xx \in 1..(Len(grid[1]) - 1) |-> pro[xx].val.column_header]),
                 header_styling_list |->
                     [xx \in 1..(Len(grid[1]) - 1) |-> pro[xx].val.column_header_styling]]))))

\* one call of fill_tt_spec on a spec that was not filled before
fill_tt_spec(fd, au, a, grid) ==
    Then(calculate_column_options(strip_omits(grid)), LAMBDA cco :
    Then(augment_from_key_cell(cco.csv, fd), LAMBDA aug :
    Then(IF a.is_ardp_station = "dwell"
         THEN make_stations_max_dwell_map(fd, aug, au.dwell_secs_cutoff)
         ELSE Ok(<<>>), LAMBDA dwell_map :
         fill_loops(fd, au, a, aug, cco.column_options, dwell_map))))

\* the body of the first spec: a row of each kind, with a free text, a cell
\* code and a reference station in the train column
PairBodyKeys == <<<<"updown">>, <<>>, <<"A">>, <<"B">>, <<"days">>>>

PairTrainCells == <<<<>>, <<"To", " ", "Chicago">>, <<>>, <<"59", " ", "last">>, <<"A">>>>

PairGrid(key, p) ==
    <<<<<<>>, key, <<"stations">>>>>>
    \o preamble_rows(p)
    \o [i \in 1..Len(PairBodyKeys) |-> <<PairBodyKeys[i], PairTrainCells[i], <<>>>>]

\* the texts the one cell of the second spec can have
PairTexts == CellTexts \cup {<<"A">>, <<"B">>}

\* the second spec: the first one with another text in the body cell (yy, xx)
other_spec(grid, p, yy, xx, text) ==
    [grid EXCEPT ![1 + Len(preamble_rows(p)) + yy][xx + 1] = text]

PairFeeds == {MkFeed(c, c = "short", TRUE) : c \in {"no", "short", "discharge"}}

InitPair ==
    /\ NoFill
    /\ pc = "fill_tt_spec"
    /\ \E key \in {<<"59">>, <<"59", "/", "174">>}, p \in Preambles,
          yy \in 1..Len(PairBodyKeys), xx \in 1..2, text \in PairTexts,
          fd \in PairFeeds, html \in BOOLEAN, ardp \in {"False", "dwell"} :
           fin = [grid |-> PairGrid(key, p),
                  other |-> other_spec(PairGrid(key, p), p, yy, xx, text),
                  y |-> yy, x |-> xx, feed |-> fd,
                  aux |-> [dwell_secs_cutoff |-> DwellCutoffDefault,
                           use_bus_icon_in_cells |-> FALSE,
                           train_numbers_side_by_side |-> FALSE],
                  args |-> [doing_html |-> html, is_ardp_station |-> ardp]]
    /\ fout = <<>>

FillBoth ==
    /\ pc = "fill_tt_spec"
    /\ fout' = [first |-> fill_tt_spec(fin.feed, fin.aux, fin.args, fin.grid),
                second |-> fill_tt_spec(fin.feed, fin.aux, fin.args, fin.other)]
    /\ pc' = "done"
    /\ UNCHANGED <<assets, csv, column_options, aux, feed, args, x, y, tt, styler_t,
                   writes, locals, result, history, fin>>

NextPair == FillBoth

SpecPair == InitPair /\ [][NextPair]_vars

-----------------------------------------------------------------------------
(* Properties of two fills side by side (under SpecPair)                    *)

BothFilled == pc = "done" /\ "first" \in DOMAIN fout

BothSucceeded == BothFilled /\ fout.first.err = "none" /\ fout.second.err = "none"

\* the two specs differ in the one cell
SpecsDiffer == fin.grid # fin.other

\* the cell (yy, xx) of the two results is the same in content and style
SameCell(yy, xx) ==
    /\ fout.first.val.timetable[yy][xx] = fout.second.val.timetable[yy][xx]
    /\ fout.first.val.styler_table[yy][xx] = fout.second.val.styler_table[yy][xx]

SameHeaders ==
    /\ fout.first.val.columns = fout.second.val.columns
    /\ fout.first.val.header_styling_list = fout.second.val.header_styling_list

\* C26: no cell's result depends on another cell: when two specs with the
\* same row 0, column 0 and column options differ only in the text of one
\* data cell (y,x) and both fills succeed, the content grids and the style
\* grids agree in every other cell, and the headers agree
C26_OtherCellsAgree ==
    BothSucceeded =>
        /\ Len(fout.first.val.timetable) = Len(PairBodyKeys)
        /\ Len(fout.second.val.timetable) = Len(PairBodyKeys)
        /\ \A yy \in 1..Len(PairBodyKeys), xx \in 1..2 :
               (yy # fin.y \/ xx # fin.x) => SameCell(yy, xx)
        /\ SameHeaders

\* the changed cell gives another result, next to a cell with a time and a
\* cell with a cell code
C26_Witness ==
    /\ BothSucceeded /\ SpecsDiffer
    /\ ~SameCell(fin.y, fin.x)
    /\ fin.y = 3 /\ fin.x = 1
    /\ fin.other[Len(fin.other) - 2][2] = <<"59", " ", "first">>
    /\ fout.first.val.timetable[4][1] # <<>>
    /\ fout.first.val.timetable[3][1] # <<>>

C26_WitnessKeywordRow ==
    /\ BothSucceeded /\ SpecsDiffer /\ fin.y = 5 /\ fin.x = 1 /\ ~SameCell(5, 1)

-----------------------------------------------------------------------------
(* Properties of the days rows (under SpecCell)                             *)

DaysRow == pc = "done" /\ CellRowKey \in {<<"days">>, <<"days-of-week">>}

\* the first train spec of the column of the cell, as the column key has it
FirstTrainSpec == split_trains_spec(CellColumnKey)[1]

FirstTrainNoheader == endswith(FirstTrainSpec, "noheader")

\* the trip of the first train of the column, the suffix noheader apart
FirstTrainTrip == IF FirstTrainSpec[1] = "59" THEN "T59" ELSE "T174"

\* the cell names a station of the feed where the first train does not call
NoTimepointAtReference ==
    /\ CellText \in {<<"A">>, <<"B">>, <<"C">>}
    /\ \A i \in 1..Len(fin.feed.stop_times) :
           ~(/\ fin.feed.stop_times[i].trip_id = FirstTrainTrip
             /\ <<fin.feed.stop_times[i].stop_id>> = CellText)

\* blank for a blank cell, the cell text for a reference station without a
\* timepoint
DaysFallback ==
    /\ CellText = <<>> => (fout.err = "none" /\ fout.val.text = <<>>)
    /\ NoTimepointAtReference => (fout.err = "none" /\ fout.val.text = CellText)

\* C27: in a days or days-of-week row of a train column a blank cell gives
\* blank output and a cell naming a reference station where the first train
\* of the column has no timepoint gives the cell text unchanged, in every
\* train column, shared columns and columns whose first train spec has the
\* suffix noheader included
C27_DaysFallbackEveryColumn ==
    (DaysRow /\ ~KeywordColumn) => DaysFallback

\* what the code does: the fallbacks hold in the columns whose first train
\* spec has no suffix noheader; with the suffix the lookup of the first train
\* fails and the fill ends with an InputError
C27_DaysFallbackUnlessNoheader ==
    (DaysRow /\ ~KeywordColumn) =>
        IF FirstTrainNoheader THEN fout.err = "InputError" ELSE DaysFallback

C27_WitnessShared ==
    /\ DaysRow /\ CellColumnKey = <<"174", "/", "59", " ", "noheader">>
    /\ fin.args.doing_html
    /\ NoTimepointAtReference /\ fout.err = "none" /\ fout.val.text = <<"A">>

C27_WitnessNoheader ==
    /\ DaysRow /\ FirstTrainNoheader /\ NoTimepointAtReference
    /\ fout.err = "InputError"

-----------------------------------------------------------------------------
(* Properties of the times in the returned string (under SpecTimepoint)     *)

\* the returned string holds the arrival or the departure time, or the
\* placeholder of a missing time
TimeRendered == shows_time(fout)

\* a flag of the cell override against the codes of the stop: first on a
\* discharge-only stop, last on a receive-only stop
ContradictoryFlags ==
    \/ fin.f.is_first_stop /\ DischargeCodes
    \/ fin.f.is_last_stop /\ ReceiveCodes

\* C28: every string timepoint_str returns holds at least one rendered time
\* (or the placeholder for a missing time), in one-row and in two-row mode,
\* for every combination of the pickup/drop-off codes with the first and last
\* flags a cell override can set
C28_AlwaysATime == Rendered => TimeRendered

\* what the code does: one-row mode always shows a time; two-row mode shows
\* none exactly when the flag contradicts the codes of the stop
C28_ATimeUnlessContradictoryFlags ==
    Rendered => (TimeRendered <=> ~(fin.f.two_row /\ ContradictoryFlags))

C28_WitnessOneRow ==
    /\ Rendered /\ ~fin.f.two_row /\ ContradictoryFlags /\ fin.f.is_last_stop
    /\ TimeRendered /\ fin.timepoint.arrival_time = 600

C28_WitnessNoTime ==
    /\ Rendered /\ fin.f.two_row /\ fin.f.is_first_stop /\ DischargeCodes
    /\ fin.timepoint.arrival_time = 600 /\ fin.timepoint.departure_time = 960
    /\ ~TimeRendered

-----------------------------------------------------------------------------
(* get_cell_codes on its own: fin holds the cell text and the train specs   *)
(* of the column, fout the _CellCodes or None                               *)

CodeTexts ==
    {<<>>, <<" ">>, <<"last">>, <<"first">>, <<"blank">>, <<"two_row">>,
     <<"59">>, <<"174">>, <<"99">>,
     <<"59", " ", "last">>, <<"59", " ", "first">>, <<"59", " ", "blank">>,
     <<"99", " ", "last">>, <<"99", " ", "blank">>, <<"99", " ", "first", " ", "two_row">>,
     <<"59", " ", "two_row">>, <<"59", " ", "first", " ", "two_row">>,
     <<"59", " ", "last", " ", "two-row">>, <<"59", " ", "blank", " ", "tworow">>,
     <<"last", " ", "tworow">>, <<"first", " ", "last">>, <<"59", " ", "first", " ", "last">>,
     <<"59", " ", "monday", " ", "last">>, <<" ", "59", " ", "last", " ">>,
     <<"To", " ", "Chicago">>, <<"Arrives", " ", "last">>}

\* the train specs of a column: of a keyword column, of one train, shared,
\* with noheader, with a weekday, and of the column key "59/"
CodeTrainSpecs ==
    {<<>>, <<<<"59">>>>, <<<<"59">>, <<"174">>>>, <<<<"59", " ", "noheader">>, <<"174">>>>,
     <<<<"59", " ", "monday">>>>, <<<<"59">>, <<>>>>}

InitCodes ==
    /\ NoFill
    /\ pc = "get_cell_codes"
    /\ fin \in [code_text : CodeTexts, train_specs : CodeTrainSpecs]
    /\ fout = <<>>

GetCellCodes ==
    /\ pc = "get_cell_codes"
    /\ fout' = get_cell_codes(fin.code_text, fin.train_specs)
    /\ pc' = "done"
    /\ UNCHANGED <<assets, csv, column_options, aux, feed, args, x, y, tt, styler_t,
                   writes, locals, result, history, fin>>

NextCodes == GetCellCodes

SpecCodes == InitCodes /\ [][NextCodes]_vars

-----------------------------------------------------------------------------
(* Properties of get_cell_codes (under SpecCodes)                           *)

CodesDone == pc = "done" /\ "code_text" \in DOMAIN fin

CodeWords == {"last", "first", "blank", "two_row", "two-row", "tworow"}

\* the text in front of the first code word, without the blanks around it
LeadingTrainPart ==
    LET at == {i \in 1..Len(fin.code_text) : fin.code_text[i] \in CodeWords}
        upto == IF at = {} THEN Len(fin.code_text)
                ELSE (CHOOSE i \in at : \A j \in at : i <= j) - 1
    IN strip(SubSeq(fin.code_text, 1, upto))

\* the train specs of the column without the suffix noheader
ColumnTrainSpecs ==
    {strip(SelectSeq(fin.train_specs[i], LAMBDA w : w # "noheader")) :
        i \in 1..Len(fin.train_specs)}

\* C29: get_cell_codes returns None or a record in which first and last are
\* never both true, blank is true only with a train_spec that is not None,
\* and train_spec is None or one of the train specs of the column without
\* the suffix noheader; it returns None for an empty cell and for a text
\* whose leading train part is not empty and not one of those train specs
C29_CellCodesShape ==
    CodesDone =>
        /\ ~fout.none =>
              /\ ~(fout.first /\ fout.last)
              /\ fout.blank => ~fout.ts_none
              /\ fout.ts_none \/ fout.train_spec \in ColumnTrainSpecs
        /\ fin.code_text = <<>> => fout.none
        /\ (LeadingTrainPart # <<>> /\ LeadingTrainPart \notin ColumnTrainSpecs) => fout.none

\* a code for the train of a column whose train spec has the suffix noheader
C29_Witness ==
    /\ CodesDone /\ fin.code_text = <<"59", " ", "last", " ", "two-row">>
    /\ fin.train_specs = <<<<"59", " ", "noheader">>, <<"174">>>>
    /\ ~fout.none /\ fout.train_spec = <<"59">> /\ fout.last /\ fout.two_row /\ ~fout.first

\* a code for a train that is not in the column
C29_WitnessNone ==
    /\ CodesDone /\ fin.code_text = <<"99", " ", "blank">>
    /\ fin.train_specs = <<<<"59">>, <<"174">>>> /\ fout.none

\* a code without a train
C29_WitnessNoTrain ==
    /\ CodesDone /\ fin.code_text = <<"last", " ", "tworow">>
    /\ ~fout.none /\ fout.ts_none /\ fout.last /\ fout.two_row

-----------------------------------------------------------------------------
(* Properties of the styles in a shared column (under Spec)                 *)

SharedColumn ==
    ColumnKey \in {<<"59", "/", "174">>, <<"59", " ", "noheader", "/", "174">>}

TimeCellTagA == contains(StyleA, "time-cell")

\* the colour classes in the style of the cell of A
ColoursA == {t \in {"59", "174", "99"} :
                \E i \in 1..(Len(StyleA) - 1) : StyleA[i] = "color[" /\ StyleA[i + 1] = t}

\* C30: in a shared column every time cell has the colour class of the train
\* whose timepoint it shows, the first train of the checked list that stops
\* at the station, and never the class of a train that does not stop there;
\* its style has the time-cell tag; a cell with empty content never has the
\* time-cell tag
C30_SharedColumnStyles ==
    (Returned /\ SharedColumn) =>
        /\ (TimedCellA /\ ContentA # <<>>) => TimeCellTagA
        /\ TimeCellTagA =>
              /\ FirstStoppingA # 0
              /\ ColoursA = {CheckedTrainsA[FirstStoppingA]}
              /\ \A t \in ColoursA : RowsAtA(t) # {}
              /\ \A other \in {"59", "174"} \ ColoursA : ~HasTimeAtA(other)
        /\ \A r \in 1..Len(result.timetable) : \A c \in 1..Len(result.timetable[r]) :
               result.timetable[r][c] = <<>> => ~contains(result.styler_table[r][c], "time-cell")

\* train 59, first in the column, does not stop at A: the cell shows train
\* 174 in the colour of train 174
C30_Witness ==
    /\ Returned /\ ColumnKey = <<"59", " ", "noheader", "/", "174">> /\ EntryCellA = <<>>
    /\ Rows59A = {} /\ Row174A # {}
    /\ TimeCellTagA /\ ColoursA = {"174"} /\ HasTimeAtA("174")

\* both trains stop at A and the cell code names the second one
C30_WitnessOverride ==
    /\ Returned /\ SharedColumn /\ EntryCellA = <<"174">>
    /\ Rows59A # {} /\ Row174A # {}
    /\ TimeCellTagA /\ ColoursA = {"174"}

\* an empty cell in the shared column: no train stops at A
C30_WitnessEmpty ==
    /\ Returned /\ SharedColumn /\ EntryCellA = <<>> /\ Rows59A = {} /\ Row174A = {}
    /\ ContentA = <<>> /\ ~TimeCellTagA
====
